---- MODULE Spec2Model ----
(***************************************************************************)
(* A model of the Prompt Architect application: the in-memory collections  *)
(* bound to the IndexedDB stores (hooks/useIndexedDB, services/db), the    *)
(* reference resolution and streaming generation of PrompterView, and the  *)
(* import merge of App.                                                    *)
(*                                                                         *)
(* Identifiers (UUID strings in the program) are natural numbers; a text   *)
(* is a sequence of characters, the empty text being << >>.  A handler     *)
(* that awaits is split at each await; the values its closure captured at  *)
(* the render in which it started are kept in the record of the operation  *)
(* in flight (gen, imp).                                                   *)
(***************************************************************************)
EXTENDS Integers, Sequences, FiniteSets, TLC

\* ------------------------------------------------------------------ bounds
\* template identifiers of the starting collections
MaxTemplates == 2
\* longest templateIds list of a starting bundle
MaxBundleLen == 2
\* longest stream of fragments
MaxFragments == 3
\* identifiers crypto.randomUUID can still hand out
MaxGenerations == 1
\* write transactions queued by user actions
MaxPending == 2
\* longest array of an imported document
MaxImport == 2
\* files read by the import of one session
MaxImportRuns == 2
\* templates created by the template form in one session
MaxCreated == 1
\* prompt fields of the batch dialog
MaxPrompts == 2

VARIABLES
    settings,                     \* useIndexedDB('settings').storedValue
    history,                      \* useIndexedDB('history').storedValue
    templates,                    \* useIndexedDB('templates').storedValue
    bundles,                      \* useIndexedDB('bundles').storedValue
    selectedTags,                 \* App state, lifted from PrompterView
    selectedBundles,
    selectedIndividualTemplates,
    prompt,
    media,
    config,                       \* isJsonMode, useMarsLsp, style, length, useReasoning
    isWelcomeModalOpen,
    isLoading,                    \* PrompterView state
    generatedPrompt,
    error,
    pc,                           \* position of the handleSubmit in flight
    gen,                          \* what the closure of that handleSubmit captured
    fullResponse,                 \* local variable of handleSubmit
    chunks,                       \* the fragments the stream has yielded so far
    request,                      \* referencedTemplates of the last streamEnhancePrompt call
    serviceCalls,                 \* number of streamEnhancePrompt calls
    store,                        \* the object stores of PromptArchitectDB
    pending,                      \* readwrite transactions created and not yet finished
    saveFailed,                   \* a transaction has failed
    importOptions,                \* App state
    imp,                          \* the FileReader of the import in flight
    lastImport,                   \* the last import that ran to its end
    toast,
    nextId,                       \* identifiers handed out by crypto.randomUUID
    isAistudio,                   \* isAistudioEnvironment()
    envApiKey,                    \* process.env.API_KEY
    loading,                      \* the loading flag of each useIndexedDB hook
    exp,                          \* the handleExportData in flight
    backup,                       \* the backup file the last export wrote
    confirmModal,                 \* the onConfirm of the confirm modal in flight
    batch,                        \* the handleGenerateAndSave in flight
    isSavingTemplate,             \* the handleSaveTemplateFromHistory in flight
    loadErrors                    \* the stores whose loadData logged an error

memVars == <<settings, history, templates, bundles>>
selVars == <<selectedTags, selectedBundles, selectedIndividualTemplates>>
inputVars == <<prompt, media, config, isWelcomeModalOpen>>
viewVars == <<isLoading, generatedPrompt, error>>
genVars == <<pc, gen, fullResponse, chunks, request, serviceCalls>>
dbVars == <<store, pending, saveFailed>>
impVars == <<importOptions, imp, lastImport>>
envVars == <<isAistudio, envApiKey>>
auxVars ==
    <<loading, exp, backup, confirmModal, batch, isSavingTemplate,
      loadErrors>>
vars == <<memVars, selVars, inputVars, viewVars, genVars, dbVars, impVars,
          toast, nextId, envVars, auxVars>>

\* ------------------------------------------------------------ data domains
Tags == {"x", "y"}
TemplateIds == 1 .. MaxTemplates
DanglingId == MaxTemplates + 1          \* an identifier no template has
BundleIds == {1}
HistoryIds == {1}
FirstFreshId == MaxTemplates + 2        \* randomUUID never repeats an identifier
Null == "null"
NoMedia == "none"

\* the useState defaults of the prompter's configuration
DefaultConfig ==
    [style |-> "default", length |-> "default", isJsonMode |-> FALSE,
     useReasoning |-> FALSE, useMarsLsp |-> FALSE]

\* types.ts PromptTemplate / BundledTemplate / HistoryItem, cut to the
\* fields the handlers read
\* importOptions: which keys of the document to apply; useState({})
Options(s, h, t, b) ==
    [settings |-> s, history |-> h, templates |-> t, bundles |-> b]

NoOptions == Options(FALSE, FALSE, FALSE, FALSE)

\* no FileReader is reading
NoImport == [pc |-> "none"]

\* no export is running, and none has written a file
NoExport == [pc |-> "none"]
NoBackup == [written |-> FALSE]

\* no onConfirm is running; no handleGenerateAndSave is running.
\* (cleared: the collections a clear has run to its end for; durable: those
\* of them whose writes had finished whenever the page was reloaded;
\* emptied: those that held records when the clear was confirmed.)
NoConfirm ==
    [pc |-> "none", cleared |-> {}, durable |-> {}, emptied |-> {},
     reloaded |-> FALSE]
NoBatch == [pc |-> "none"]
NoSaving == [pc |-> "none"]

StoreNames == {"settings", "history", "templates", "bundles"}

\* no import has run yet
NoLastImport == [n |-> 0, repeat |-> FALSE]

Template(i, tg, ti) == [id |-> i, tags |-> tg, title |-> ti]
Bundle(i, ids, n) == [id |-> i, templateIds |-> ids, name |-> n]
HistoryItem(i, gp, rt, rb) ==
    [id |-> i, generatedPrompt |-> gp, referencedTemplates |-> rt,
     referencedBundles |-> rb]

\* ---------------------------------------------------------- list helpers
Range(s) == {s[i] : i \in DOMAIN s}
Ids(s) == {s[i].id : i \in DOMAIN s}
IdList(s) == [i \in DOMAIN s |-> s[i].id]
Includes(s, x) == \E i \in DOMAIN s : s[i] = x
FilterOutId(s, id) == SelectSeq(s, LAMBDA r : r.id # id)

\* sequences without repetition over S, of length at most n
RECURSIVE InjSeqs(_, _)
InjSeqs(S, n) ==
    IF n = 0 THEN {<< >>}
    ELSE LET shorter == InjSeqs(S, n - 1)
         IN shorter \cup
            {Append(p[1], p[2]) :
                p \in {q \in shorter \X S : ~Includes(q[1], q[2])}}

RECURSIVE Flatten(_)
Flatten(ss) == IF ss = << >> THEN << >> ELSE Head(ss) \o Flatten(Tail(ss))

\* ------------------------------------------------- reference resolution
\* new Map(all.map(r => [r.id, r])).get(id): the last record of that id
\* (undefined is the record of identifier 0, which no record has)
Undefined == [id |-> 0]

MapGet(all, id) ==
    LET hits == {i \in DOMAIN all : all[i].id = id}
    IN IF hits = {} THEN Undefined
       ELSE all[CHOOSE i \in hits : \A j \in hits : j <= i]

\* (a Map that moved a key set again to the end)
MapSet_MoveToEnd(m, item) == Append(FilterOutId(m, item.id), item)

\* Map.prototype.set: a key already present keeps its position and takes
\* the new value, a new key goes to the end
MapSet(m, item) ==
    IF \E i \in DOMAIN m : m[i].id = item.id
    THEN [i \in DOMAIN m |-> IF m[i].id = item.id THEN item ELSE m[i]]
    ELSE Append(m, item)

\* [...new Map(items.map(item => [item.id, item])).values()]
RECURSIVE MapValuesFrom(_, _)
MapValuesFrom(m, items) ==
    IF items = << >> THEN m
    ELSE MapValuesFrom(MapSet(m, Head(items)), Tail(items))

\* (the concatenation as it is, with no Map in between)
MapValues_NoDedup(items) == items

MapValues(items) == MapValuesFrom(<< >>, items)

\* allTemplates.filter(t => selectedTags.some(tag => t.tags.includes(tag)))
TemplatesFromTags(allTemplates, selTags) ==
    SelectSeq(allTemplates,
              LAMBDA t : \E i \in DOMAIN selTags : selTags[i] \in t.tags)

\* allTemplates.filter(t => selectedBundles.some(b => b.templateIds.includes(t.id)))
TemplatesFromBundles(allTemplates, selBundles) ==
    SelectSeq(allTemplates,
              LAMBDA t : \E i \in DOMAIN selBundles :
                            Includes(selBundles[i].templateIds, t.id))

AllReferencedTemplates(allTemplates, selTags, selBundles, selIndividual) ==
    MapValues(TemplatesFromTags(allTemplates, selTags)
              \o TemplatesFromBundles(allTemplates, selBundles)
              \o selIndividual)

\* (a lookup of every id of the bundle, found or not)
TemplatesForBundle_Lookup(allTemplates, bundle) ==
    [i \in DOMAIN bundle.templateIds |->
        MapGet(allTemplates, bundle.templateIds[i])]

\* the selected-bundle pill of PrompterView
TemplatesForBundle(allTemplates, bundle) ==
    SelectSeq(allTemplates, LAMBDA t : Includes(bundle.templateIds, t.id))

\* HistoryView: map(id => byId.get(id)) followed by filter(r => !!r)
Hydrate(ids, all) ==
    SelectSeq([i \in DOMAIN ids |-> MapGet(all, ids[i])],
              LAMBDA r : r.id # 0)

HydratedTemplates(item, allTemplates) ==
    Hydrate(item.referencedTemplates, allTemplates)

HydratedBundles(item, allBundles) ==
    Hydrate(item.referencedBundles, allBundles)

TemplatesInBundle(item, bundle, allTemplates) ==
    SelectSeq(HydratedTemplates(item, allTemplates),
              LAMBDA t : Includes(bundle.templateIds, t.id))

\* ------------------------------------------------------ services/db.ts
\* an object store with keyPath 'id' holds one record per key; put replaces
StoreOf(data) == [k \in Ids(data) |-> MapGet(data, k)]

RECURSIVE KeyOrder(_)
KeyOrder(keys) ==
    IF keys = {} THEN << >>
    ELSE LET k == CHOOSE x \in keys : \A y \in keys : x <= y
         IN <<k>> \o KeyOrder(keys \ {k})

\* getStoreData: store.getAll() returns the records in key order
GetStoreData(f) == LET ks == KeyOrder(DOMAIN f) IN [i \in DOMAIN ks |-> f[ks[i]]]

\* getSingleObject(storeName, key)
GetSingleObject(f, key) == IF key \in DOMAIN f THEN f[key] ELSE Undefined

\* (a setStoreData that puts the items without clearing the store first)
TxEffect_Merge(st, tx) ==
    IF tx.kind = "setStoreData"
    THEN [st EXCEPT ![tx.storeName] =
            [k \in DOMAIN st[tx.storeName] \cup Ids(tx.data) |->
                IF k \in Ids(tx.data) THEN MapGet(tx.data, k)
                ELSE st[tx.storeName][k]]]
    ELSE IF tx.kind = "clearStore"
    THEN [st EXCEPT ![tx.storeName] = << >>]
    ELSE [st EXCEPT ![tx.storeName] =
            [k \in DOMAIN st[tx.storeName] \cup {tx.data.key} |->
                IF k = tx.data.key THEN tx.data ELSE st[tx.storeName][k]]]

\* the effect of a transaction once it completes
\*   setStoreData: store.clear(); data.forEach(item => store.put(item))
\*   setSingleObject: store.put(data)
\*   clearStore: store.clear()
TxEffect(st, tx) ==
    IF tx.kind = "setStoreData"
    THEN [st EXCEPT ![tx.storeName] = StoreOf(tx.data)]
    ELSE IF tx.kind = "clearStore"
    THEN [st EXCEPT ![tx.storeName] = << >>]
    ELSE [st EXCEPT ![tx.storeName] =
            [k \in DOMAIN st[tx.storeName] \cup {tx.data.key} |->
                IF k = tx.data.key THEN tx.data ELSE st[tx.storeName][k]]]

SetStoreDataTx(storeName, data) ==
    [kind |-> "setStoreData", storeName |-> storeName, data |-> data]

SetSingleObjectTx(storeName, data) ==
    [kind |-> "setSingleObject", storeName |-> storeName, data |-> data]

\* clearStore(storeName), whose promise the caller awaits
ClearStoreTx(storeName) ==
    [kind |-> "clearStore", storeName |-> storeName, awaited |-> TRUE]

\* (transactions that finish in any order)
IsFirstOfStore_AnyOrder(i) == i \in DOMAIN pending

\* readwrite transactions on one object store run in the order of creation
IsFirstOfStore(i) ==
    \A j \in 1 .. (i - 1) : pending[j].storeName # pending[i].storeName

RemoveAt(s, i) == [j \in 1 .. (Len(s) - 1) |-> IF j < i THEN s[j] ELSE s[j + 1]]

\* a transaction whose promise a handler awaits
IsAwaited(tx) == "awaited" \in DOMAIN tx

\* transaction.oncomplete
TxComplete ==
    /\ \E i \in DOMAIN pending :
          /\ IsFirstOfStore(i)
          /\ ~IsAwaited(pending[i])
          /\ store' = TxEffect(store, pending[i])
          /\ pending' = RemoveAt(pending, i)
    /\ UNCHANGED <<memVars, selVars, inputVars, viewVars, genVars, saveFailed,
                   impVars, toast, nextId, envVars, auxVars>>

\* (a failure after which the hook takes back what the store holds)
TxError_Reverts ==
    /\ \E i \in DOMAIN pending :
          /\ IsFirstOfStore(i)
          /\ ~IsAwaited(pending[i])
          /\ pending' = RemoveAt(pending, i)
          /\ LET name == pending[i].storeName
             IN /\ settings' = IF name = "settings"
                               THEN store.settings["user-settings"].value
                               ELSE settings
                /\ history' = IF name = "history"
                              THEN GetStoreData(store.history) ELSE history
                /\ templates' = IF name = "templates"
                                THEN GetStoreData(store.templates)
                                ELSE templates
                /\ bundles' = IF name = "bundles"
                              THEN GetStoreData(store.bundles) ELSE bundles
    /\ saveFailed' = TRUE
    /\ UNCHANGED <<selVars, inputVars, viewVars, genVars, store,
                   impVars, toast, nextId, envVars, auxVars>>

\* transaction.onerror: the transaction aborts and leaves the store as it
\* was; saveData logs the rejection with console.error
TxError ==
    /\ \E i \in DOMAIN pending :
          /\ IsFirstOfStore(i)
          /\ ~IsAwaited(pending[i])
          /\ pending' = RemoveAt(pending, i)
    /\ saveFailed' = TRUE
    /\ UNCHANGED <<memVars, selVars, inputVars, viewVars, genVars, store,
                   impVars, toast, nextId, envVars, auxVars>>

\* ------------------------------------------------ hooks/useIndexedDB.ts
\* setValue's saveData: the write-through of the value just set
SaveData(storeName, valueToStore) ==
    IF storeName = "settings"
    THEN SetSingleObjectTx(storeName,
                           [key |-> "user-settings", value |-> valueToStore])
    ELSE SetStoreDataTx(storeName, valueToStore)

\* a readonly transaction (getStoreData, getSingleObject) and who awaits it
ReadTx(storeName, by) ==
    [kind |-> "read", storeName |-> storeName, awaited |-> TRUE, by |-> by]

IsReadBy(tx, by) == tx.kind = "read" /\ tx.by = by

\* the initialValue each hook is called with
InitialValue(name) ==
    IF name = "settings"
    THEN [apiKeySource |-> IF isAistudio THEN "environment" ELSE "custom",
          apiKey |-> "", hasSeenWelcome |-> FALSE]
    ELSE << >>

\* the welcome effect of App: what isWelcomeModalOpen is after the effect has
\* run with these values
WelcomeEffect(open, isSettingsLoading, s) ==
    IF ~isSettingsLoading /\ ~s.hasSeenWelcome THEN TRUE ELSE open

\* isWelcomeModalOpen after the render in which the settings hook returns
\* these values: the effect runs when one of its dependencies has changed
AfterRender(isSettingsLoading, s) ==
    IF \/ isSettingsLoading # loading.settings
       \/ s.hasSeenWelcome # settings.hasSeenWelcome
    THEN WelcomeEffect(isWelcomeModalOpen, isSettingsLoading, s)
    ELSE isWelcomeModalOpen

\* the hooks mount (the page is loaded over the stores newStore): every
\* storedValue is its initialValue, every loading flag is true, and the
\* effect of each hook has asked for its data
Mount(newStore) ==
    /\ store' = newStore
    /\ pending' = <<ReadTx("settings", "load"), ReadTx("history", "load"),
                    ReadTx("templates", "load"), ReadTx("bundles", "load")>>
    /\ settings' = InitialValue("settings")
    /\ history' = InitialValue("history")
    /\ templates' = InitialValue("templates")
    /\ bundles' = InitialValue("bundles")
    /\ loading' = [name \in StoreNames |-> TRUE]
    /\ loadErrors' = {}
    /\ selectedTags' = << >>
    /\ selectedBundles' = << >>
    /\ selectedIndividualTemplates' = << >>
    /\ prompt' = ""
    /\ media' = NoMedia
    /\ config' = DefaultConfig
    /\ isWelcomeModalOpen' =
          WelcomeEffect(FALSE, TRUE, InitialValue("settings"))
    /\ isLoading' = FALSE
    /\ generatedPrompt' = << >>
    /\ error' = Null
    /\ importOptions' = NoOptions
    /\ toast' = Null

\* what loadData hands to setStoredValue when its read has succeeded
Loaded(name) ==
    IF name = "settings"
    THEN LET data == GetSingleObject(store.settings, "user-settings")
         IN IF data # Undefined THEN data.value ELSE InitialValue(name)
    ELSE LET data == GetStoreData(store[name])
         IN IF Len(data) > 0 THEN data ELSE InitialValue(name)

SetStored(name, value) ==
    /\ settings' = IF name = "settings" THEN value ELSE settings
    /\ history' = IF name = "history" THEN value ELSE history
    /\ templates' = IF name = "templates" THEN value ELSE templates
    /\ bundles' = IF name = "bundles" THEN value ELSE bundles

\* (a load that hands what it read to the setter, write-through included)
LoadDone_ThroughSetter ==
    /\ \E i \in DOMAIN pending :
          /\ IsFirstOfStore(i)
          /\ IsReadBy(pending[i], "load")
          /\ SetStored(pending[i].storeName, Loaded(pending[i].storeName))
          /\ loading' = [loading EXCEPT ![pending[i].storeName] = FALSE]
          /\ pending' = Append(RemoveAt(pending, i),
                               SaveData(pending[i].storeName,
                                        Loaded(pending[i].storeName)))
    /\ UNCHANGED <<selVars, prompt, media, config, viewVars, genVars, store, saveFailed,
                   impVars, toast, nextId, envVars, exp, backup,
                   confirmModal, batch, isSavingTemplate, loadErrors>>
    /\ isWelcomeModalOpen' = AfterRender(loading'.settings, settings')

\* loadData of the hook of one store: the read succeeded
LoadDone ==
    /\ \E i \in DOMAIN pending :
          /\ IsFirstOfStore(i)
          /\ IsReadBy(pending[i], "load")
          /\ SetStored(pending[i].storeName, Loaded(pending[i].storeName))
          /\ loading' = [loading EXCEPT ![pending[i].storeName] = FALSE]
          /\ pending' = RemoveAt(pending, i)
    /\ UNCHANGED <<selVars, prompt, media, config, viewVars, genVars, store, saveFailed,
                   impVars, toast, nextId, envVars, exp, backup,
                   confirmModal, batch, isSavingTemplate, loadErrors>>
    /\ isWelcomeModalOpen' = AfterRender(loading'.settings, settings')

\* (a failed load that leaves the hook loading)
LoadFailed_StaysLoading ==
    /\ \E i \in DOMAIN pending :
          /\ IsFirstOfStore(i)
          /\ IsReadBy(pending[i], "load")
          /\ SetStored(pending[i].storeName,
                       InitialValue(pending[i].storeName))
          /\ loadErrors' = loadErrors \cup {pending[i].storeName}
          /\ pending' = RemoveAt(pending, i)
    /\ UNCHANGED <<selVars, prompt, media, config, viewVars, genVars, store, saveFailed,
                   impVars, toast, nextId, envVars, loading, exp, backup,
                   confirmModal, batch, isSavingTemplate>>
    /\ isWelcomeModalOpen' = AfterRender(loading'.settings, settings')

\* loadData of the hook of one store: the read failed (catch with its
\* console.error, finally)
LoadFailed ==
    /\ \E i \in DOMAIN pending :
          /\ IsFirstOfStore(i)
          /\ IsReadBy(pending[i], "load")
          /\ SetStored(pending[i].storeName,
                       InitialValue(pending[i].storeName))
          /\ loading' = [loading EXCEPT ![pending[i].storeName] = FALSE]
          /\ loadErrors' = loadErrors \cup {pending[i].storeName}
          /\ pending' = RemoveAt(pending, i)
    /\ UNCHANGED <<selVars, prompt, media, config, viewVars, genVars, store, saveFailed,
                   impVars, toast, nextId, envVars, exp, backup,
                   confirmModal, batch, isSavingTemplate>>
    /\ isWelcomeModalOpen' = AfterRender(loading'.settings, settings')

\* -------------------------------------------------- QuickAddPanel toggles
Toggle(list, x) ==
    IF Includes(list, x) THEN SelectSeq(list, LAMBDA y : y # x)
    ELSE Append(list, x)

ToggleById(list, r) ==
    IF r.id \in Ids(list) THEN FilterOutId(list, r.id) ELSE Append(list, r)

\* the tags on offer are the keys of tagUsageCounts
toggleTag ==
    /\ \E i \in DOMAIN templates : \E tag \in templates[i].tags :
          selectedTags' = Toggle(selectedTags, tag)
    /\ UNCHANGED <<memVars, selectedBundles, selectedIndividualTemplates,
                   inputVars, viewVars, genVars, dbVars, impVars, toast,
                   nextId, envVars, auxVars>>

toggleBundle ==
    /\ \E i \in DOMAIN bundles :
          selectedBundles' = ToggleById(selectedBundles, bundles[i])
    /\ UNCHANGED <<memVars, selectedTags, selectedIndividualTemplates,
                   inputVars, viewVars, genVars, dbVars, impVars, toast,
                   nextId, envVars, auxVars>>

toggleTemplate ==
    /\ \E i \in DOMAIN templates :
          selectedIndividualTemplates' =
              ToggleById(selectedIndividualTemplates, templates[i])
    /\ UNCHANGED <<memVars, selectedTags, selectedBundles, inputVars,
                   viewVars, genVars, dbVars, impVars, toast, nextId, envVars, auxVars>>

\* TemplateCard delete button: setTemplates(prev => prev.filter(...)) with
\* the setter of the current render, and its write-through
\* (a delete that also takes the identifier out of every bundle)
DeleteTemplate_Cascade ==
    /\ Len(pending) < MaxPending
    /\ \E i \in DOMAIN templates :
          LET valueToStore == FilterOutId(templates, templates[i].id)
          IN /\ templates' = valueToStore
             /\ pending' = Append(pending, SaveData("templates", valueToStore))
             /\ bundles' =
                   [b \in DOMAIN bundles |->
                       [bundles[b] EXCEPT !.templateIds =
                           SelectSeq(@, LAMBDA t : t # templates[i].id)]]
    /\ toast' = "Template deleted."
    /\ UNCHANGED <<settings, history, selVars, inputVars, viewVars,
                   genVars, store, saveFailed, impVars, nextId, envVars, auxVars>>

DeleteTemplate ==
    /\ Len(pending) < MaxPending
    /\ \E i \in DOMAIN templates :
          LET valueToStore == FilterOutId(templates, templates[i].id)
          IN /\ templates' = valueToStore
             /\ pending' = Append(pending, SaveData("templates", valueToStore))
    /\ toast' = "Template deleted."
    /\ UNCHANGED <<settings, history, bundles, selVars, inputVars, viewVars,
                   genVars, store, saveFailed, impVars, nextId, envVars, auxVars>>

\* ------------------------------------------- PrompterView.handleSubmit
\* chunk.text of the i-th chunk: no text (undefined or ''), or a text that
\* tells the chunks apart
Letters == <<"A", "B", "C", "D", "E", "F">>
Fragments(i) == {<< >>, <<Letters[i]>>}
ErrorMessages == {"", "quota"}              \* e.message

NoGen == [allTemplates |-> << >>, selectedTags |-> << >>,
          selectedBundles |-> << >>, selectedIndividualTemplates |-> << >>,
          allReferencedTemplates |-> << >>, history |-> << >>]

\* (a choice of key that looked at the environment alone)
ApiKeyToUse_EnvironmentOnly ==
    IF isAistudio THEN envApiKey ELSE settings.apiKey

ApiKeyToUse ==
    IF isAistudio /\ settings.apiKeySource = "environment"
    THEN envApiKey
    ELSE settings.apiKey

\* e.message || 'An unknown error occurred.'
ErrorText(message) ==
    IF message = "" THEN "An unknown error occurred." ELSE message

\* the click on the generate button, up to the first await
HandleSubmit ==
    /\ ~isLoading /\ (prompt # "" \/ media # NoMedia)       \* button enabled
    /\ serviceCalls < MaxGenerations
    /\ IF prompt = "" /\ media = NoMedia
       THEN /\ error' = "Please enter a prompt or upload media."
            /\ UNCHANGED <<isLoading, generatedPrompt, genVars>>
       ELSE IF ApiKeyToUse = ""
       THEN /\ error' = "API Key is missing. Please configure it in settings."
            /\ isLoading' = FALSE
            /\ generatedPrompt' = << >>
            /\ UNCHANGED genVars
       ELSE LET refs == AllReferencedTemplates(templates, selectedTags,
                            selectedBundles, selectedIndividualTemplates)
            IN /\ isLoading' = TRUE
               /\ generatedPrompt' = << >>
               /\ error' = Null
               /\ gen' = [allTemplates |-> templates,
                          selectedTags |-> selectedTags,
                          selectedBundles |-> selectedBundles,
                          selectedIndividualTemplates |->
                              selectedIndividualTemplates,
                          allReferencedTemplates |-> refs,
                          history |-> history]
               /\ fullResponse' = << >>
               /\ chunks' = << >>
               /\ IF media # NoMedia
                  THEN /\ pc' = "fileToBase64"
                       /\ UNCHANGED <<request, serviceCalls>>
                  ELSE /\ pc' = "streamEnhancePrompt"
                       /\ request' = refs
                       /\ serviceCalls' = serviceCalls + 1
    /\ UNCHANGED <<memVars, selVars, inputVars, dbVars, impVars, toast,
                   nextId, envVars, auxVars>>

\* fileToBase64 resolved: streamEnhancePrompt is called with the media
MediaConverted ==
    /\ pc = "fileToBase64"
    /\ pc' = "streamEnhancePrompt"
    /\ request' = gen.allReferencedTemplates
    /\ serviceCalls' = serviceCalls + 1
    /\ UNCHANGED <<memVars, selVars, inputVars, viewVars, gen, fullResponse,
                   chunks, dbVars, impVars, toast, nextId, envVars, auxVars>>

\* (a handler that saved what had arrived before it reported the failure)
Catch_SavesPartial(message) ==
    /\ error' = IF message = "" THEN "An unknown error occurred." ELSE message
    /\ isLoading' = FALSE
    /\ pc' = "idle"
    /\ gen' = NoGen
    /\ fullResponse' = << >>
    /\ IF fullResponse # << >>
       THEN /\ history' = <<HistoryItem(nextId, fullResponse,
                               IdList(gen.allReferencedTemplates),
                               IdList(gen.selectedBundles))>> \o gen.history
            /\ nextId' = nextId + 1
       ELSE UNCHANGED <<history, nextId>>
    /\ UNCHANGED <<settings, templates, bundles, selVars, inputVars,
                   generatedPrompt, chunks, request, serviceCalls, dbVars,
                   impVars, toast, envVars, auxVars>>

\* the catch and finally blocks of handleSubmit; the locals of the call
\* (the closure, fullResponse) end with it
\* (a catch with no finally: the loading state is never ended)
Catch_StaysLoading(message) ==
    /\ error' = ErrorText(message)
    /\ isLoading' = isLoading
    /\ pc' = "idle"
    /\ gen' = NoGen
    /\ fullResponse' = << >>
    /\ UNCHANGED <<memVars, selVars, inputVars, generatedPrompt, chunks,
                   request, serviceCalls, dbVars, impVars, toast, nextId,
                   envVars, auxVars>>

Catch(message) ==
    /\ error' = ErrorText(message)
    /\ isLoading' = FALSE
    /\ pc' = "idle"
    /\ gen' = NoGen
    /\ fullResponse' = << >>
    /\ UNCHANGED <<memVars, selVars, inputVars, generatedPrompt, chunks,
                   request, serviceCalls, dbVars, impVars, toast, nextId,
                   envVars, auxVars>>

\* reader.onerror of fileToBase64
MediaFailed == pc = "fileToBase64" /\ \E m \in ErrorMessages : Catch(m)

\* (a handler that ended the loading state as soon as the stream opened)
StreamOpened_EndsLoading ==
    /\ pc = "streamEnhancePrompt"
    /\ pc' = "stream"
    /\ isLoading' = FALSE
    /\ UNCHANGED <<memVars, selVars, inputVars, generatedPrompt, error, gen,
                   fullResponse, chunks, request, serviceCalls, dbVars,
                   impVars, toast, nextId, envVars, auxVars>>

\* streamEnhancePrompt resolved with the response stream
StreamOpened ==
    /\ pc = "streamEnhancePrompt"
    /\ pc' = "stream"
    /\ UNCHANGED <<memVars, selVars, inputVars, viewVars, gen, fullResponse,
                   chunks, request, serviceCalls, dbVars, impVars, toast,
                   nextId, envVars, auxVars>>

\* streamEnhancePrompt rejected
StreamSetupFailed ==
    pc = "streamEnhancePrompt" /\ \E m \in ErrorMessages : Catch(m)

\* (a loop that put each fragment in front of what had arrived)
StreamChunk_Prepend ==
    /\ pc = "stream"
    /\ Len(chunks) < MaxFragments
    /\ \E text \in Fragments(Len(chunks) + 1) :
          /\ chunks' = Append(chunks, text)
          /\ fullResponse' = text \o fullResponse
          /\ generatedPrompt' = text \o generatedPrompt
    /\ UNCHANGED <<memVars, selVars, inputVars, isLoading, error, pc, gen,
                   request, serviceCalls, dbVars, impVars, toast, nextId,
                   envVars, auxVars>>

\* one turn of the for await loop
StreamChunk ==
    /\ pc = "stream"
    /\ Len(chunks) < MaxFragments
    /\ \E text \in Fragments(Len(chunks) + 1) :
          /\ chunks' = Append(chunks, text)
          /\ IF text # << >>
             THEN /\ fullResponse' = fullResponse \o text
                  /\ generatedPrompt' = generatedPrompt \o text
             ELSE UNCHANGED <<fullResponse, generatedPrompt>>
    /\ UNCHANGED <<memVars, selVars, inputVars, isLoading, error, pc, gen,
                   request, serviceCalls, dbVars, impVars, toast, nextId,
                   envVars, auxVars>>

\* the stream threw
StreamFailed == pc = "stream" /\ \E m \in ErrorMessages : Catch(m)

\* (a record that resolved the references again when the stream ended)
NewHistoryItem_Recomputed ==
    HistoryItem(nextId, fullResponse,
                IdList(AllReferencedTemplates(templates, selectedTags,
                           selectedBundles, selectedIndividualTemplates)),
                IdList(gen.selectedBundles))

\* the record handleSubmit builds after the loop
NewHistoryItem ==
    HistoryItem(nextId, fullResponse, IdList(gen.allReferencedTemplates),
                IdList(gen.selectedBundles))

\* (an end of stream that saved a record whatever had arrived)
StreamEnded_AlwaysSaves ==
    /\ pc = "stream"
    /\ history' = <<NewHistoryItem>> \o gen.history
    /\ pending' = Append(pending, SaveData("history", history'))
    /\ nextId' = nextId + 1
    /\ isLoading' = FALSE
    /\ pc' = "idle"
    /\ gen' = NoGen
    /\ fullResponse' = << >>
    /\ UNCHANGED <<settings, templates, bundles, selVars, inputVars,
                   generatedPrompt, error, chunks, request, serviceCalls,
                   store, saveFailed, impVars, toast, envVars, auxVars>>

\* the stream ended: setHistory(prev => [item, ...prev]) through the setter
\* handleSubmit captured, whose storedValue is the history of that render
StreamEnded ==
    /\ pc = "stream"
    /\ IF fullResponse # << >>
       THEN LET valueToStore == <<NewHistoryItem>> \o gen.history
            IN /\ history' = valueToStore
               /\ pending' = Append(pending, SaveData("history", valueToStore))
               /\ nextId' = nextId + 1
       ELSE UNCHANGED <<history, pending, nextId>>
    /\ isLoading' = FALSE
    /\ pc' = "idle"
    /\ gen' = NoGen
    /\ fullResponse' = << >>
    /\ UNCHANGED <<settings, templates, bundles, selVars, inputVars,
                   generatedPrompt, error, chunks, request, serviceCalls,
                   store, saveFailed, impVars, toast, envVars, auxVars>>

\* ------------------------------------------------------- starting states
TagSets == {{}, {"x"}, {"x", "y"}}

\* the template collections a session can hold: distinct identifiers, any
\* order (new templates are prepended, imported ones appended), any tags
StartTemplates ==
    {[i \in DOMAIN ids |-> Template(ids[i], tg[ids[i]], "old")] :
        ids \in InjSeqs(TemplateIds, MaxTemplates),
        tg \in [TemplateIds -> TagSets]}

\* no bundle, or one bundle whose templateIds may name a deleted template
StartBundles ==
    {<< >>} \cup
    {<<Bundle(1, KeyOrder(ids), "old")>> :
        ids \in {S \in SUBSET (TemplateIds \cup {DanglingId}) :
                    Cardinality(S) <= MaxBundleLen}}

\* a record of an earlier generation that used every template, one of them
\* deleted since, and two bundles, one of them deleted since
OldHistoryItem ==
    HistoryItem(1, <<"A">>, [i \in 1 .. DanglingId |-> i], <<1, 2>>)

SettingsRecord(src, key, seen) ==
    [apiKeySource |-> src, apiKey |-> key, hasSeenWelcome |-> seen]

SettingsStore(s) ==
    [k \in {"user-settings"} |-> [key |-> "user-settings", value |-> s]]

\* everything at rest: no generation, no import, no transaction in flight,
\* and the stores holding what the collections hold
NothingSelected ==
    /\ selectedTags = << >>
    /\ selectedBundles = << >>
    /\ selectedIndividualTemplates = << >>

AtRest ==
    /\ config = DefaultConfig
    /\ isWelcomeModalOpen = FALSE
    /\ isLoading = FALSE
    /\ generatedPrompt = << >>
    /\ error = Null
    /\ pc = "idle"
    /\ gen = NoGen
    /\ fullResponse = << >>
    /\ chunks = << >>
    /\ request = << >>
    /\ serviceCalls = 0
    /\ store = [settings |-> SettingsStore(settings),
                history |-> StoreOf(history),
                templates |-> StoreOf(templates),
                bundles |-> StoreOf(bundles)]
    /\ pending = << >>
    /\ loading = [name \in StoreNames |-> FALSE]
    /\ exp = NoExport
    /\ backup = NoBackup
    /\ confirmModal = NoConfirm
    /\ batch = NoBatch
    /\ isSavingTemplate = NoSaving
    /\ loadErrors = {}
    /\ saveFailed = FALSE
    /\ toast = Null
    /\ nextId = FirstFreshId

\* --------------------------------------------------- reference resolution
InitResolve ==
    /\ settings = SettingsRecord("custom", "k", TRUE)
    /\ history = <<OldHistoryItem>>
    /\ templates \in StartTemplates
    /\ bundles \in StartBundles
    /\ prompt = "p"
    /\ media = NoMedia
    /\ isAistudio = FALSE
    /\ envApiKey = ""
    /\ importOptions = NoOptions
    /\ imp = NoImport
    /\ lastImport = NoLastImport
    /\ NothingSelected
    /\ AtRest

\* the references are chosen before the click
NextResolve ==
    \/ pc = "idle" /\ toggleTag
    \/ pc = "idle" /\ toggleBundle
    \/ pc = "idle" /\ toggleTemplate
    \/ HandleSubmit

SpecResolve == InitResolve /\ [][NextResolve]_vars

\* what the handleSubmit in flight resolved, and from what
Submitted == pc # "idle"

TagQualified ==
    {t.id : t \in {u \in Range(gen.allTemplates) :
                      u.tags \cap Range(gen.selectedTags) # {}}}

BundleQualified ==
    {t.id : t \in {u \in Range(gen.allTemplates) :
                      \E b \in Range(gen.selectedBundles) :
                          u.id \in Range(b.templateIds)}}

IndividuallySelected == Ids(gen.selectedIndividualTemplates)

Qualifying == TagQualified \cup BundleQualified \cup IndividuallySelected

Occurrences(list, id) == Cardinality({i \in DOMAIN list : list[i].id = id})

\* C1: the reference list handleSubmit computes holds each qualifying
\* template identifier exactly once, whether it qualified by a tag, by a
\* bundle, by being selected individually, or by several of these.
C1_EachQualifyingOnce ==
    Submitted =>
        \A id \in Qualifying : Occurrences(gen.allReferencedTemplates, id) = 1

\* a submit where one template qualifies three times over and another one
\* is selected individually and matches no tag and no bundle
C1_Witness ==
    /\ Submitted
    /\ TagQualified \cap BundleQualified \cap IndividuallySelected # {}
    /\ IndividuallySelected \ (TagQualified \cup BundleQualified) # {}

\* the identifiers of a list, each at its first occurrence only
FirstSeen(ids) ==
    LET keep == {i \in DOMAIN ids : \A j \in 1 .. (i - 1) : ids[j] # ids[i]}
        RECURSIVE Pick(_)
        Pick(i) == IF i > Len(ids) THEN << >>
                   ELSE IF i \in keep THEN <<ids[i]>> \o Pick(i + 1)
                   ELSE Pick(i + 1)
    IN Pick(1)

\* the identifiers of a collection that belong to a set, in collection order
InOrder(list, idSet) ==
    LET RECURSIVE Walk(_)
        Walk(i) == IF i > Len(list) THEN << >>
                   ELSE IF list[i].id \in idSet THEN <<list[i].id>> \o Walk(i + 1)
                   ELSE Walk(i + 1)
    IN Walk(1)

\* C2: the identifiers of the reference list are exactly the union of the
\* tag matches, the bundle matches and the individual selections, in the
\* first-seen order of tag matches (collection order), bundle matches
\* (collection order), individual selections (selection order).
C2_UnionInFirstSeenOrder ==
    Submitted =>
        /\ Ids(gen.allReferencedTemplates) = Qualifying
        /\ IdList(gen.allReferencedTemplates) =
              FirstSeen(InOrder(gen.allTemplates, TagQualified)
                        \o InOrder(gen.allTemplates, BundleQualified)
                        \o IdList(gen.selectedIndividualTemplates))

\* a submit where the template picked second is also matched by a tag and
\* by a bundle, so that it comes before the template picked first
C2_Witness ==
    /\ Submitted
    /\ Len(gen.selectedIndividualTemplates) >= 2
    /\ gen.selectedIndividualTemplates[1].id \notin TagQualified \cup BundleQualified
    /\ gen.selectedIndividualTemplates[2].id \in TagQualified \cap BundleQualified
    /\ IdList(gen.allReferencedTemplates)
          # IdList(gen.selectedIndividualTemplates)

\* the templates a bundle names that still exist
Existing(bundle, allTemplates) == Range(bundle.templateIds) \cap Ids(allTemplates)

Dangling(bundle, allTemplates) == Range(bundle.templateIds) \ Ids(allTemplates)

\* C3: resolving a bundle whose templateIds names a deleted template yields
\* the templates that still exist and nothing else: in handleSubmit, in the
\* selected-bundle pill, and in the history view.
C3_DanglingIdsOmitted ==
    /\ Submitted =>
          LET found == TemplatesFromBundles(gen.allTemplates, gen.selectedBundles)
          IN /\ Range(found) \subseteq Range(gen.allTemplates)
             /\ Ids(found) = UNION {Existing(b, gen.allTemplates) :
                                       b \in Range(gen.selectedBundles)}
             /\ \A t \in Range(found) :
                   t \in Range(gen.allReferencedTemplates)
                   \/ t.id \in Ids(gen.selectedIndividualTemplates)
    /\ \A b \in Range(selectedBundles) :
          LET found == TemplatesForBundle(templates, b)
          IN /\ Range(found) \subseteq Range(templates)
             /\ Ids(found) = Existing(b, templates)
    /\ \A item \in Range(history) :
          /\ Range(HydratedTemplates(item, templates)) \subseteq Range(templates)
          /\ Range(HydratedBundles(item, bundles)) \subseteq Range(bundles)
          /\ \A b \in Range(HydratedBundles(item, bundles)) :
                LET found == TemplatesInBundle(item, b, templates)
                IN /\ Range(found) \subseteq Range(templates)
                   /\ Ids(found) =
                         Existing(b, templates) \cap Range(item.referencedTemplates)

\* a submit with a selected bundle that names a deleted template and an
\* existing one, shown in the history view as well
C3_Witness ==
    /\ Submitted
    /\ \E b \in Range(gen.selectedBundles) :
          /\ Dangling(b, gen.allTemplates) # {}
          /\ Existing(b, gen.allTemplates) # {}
    /\ \E b \in Range(selectedBundles) : Dangling(b, templates) # {}
    /\ \E item \in Range(history) :
          \E b \in Range(HydratedBundles(item, bundles)) :
              /\ Dangling(b, templates) # {}
              /\ TemplatesInBundle(item, b, templates) # << >>

\* ------------------------------------------------ streaming generation
\* two templates, the newer one first, a bundle that names a deleted
\* template, and the record of an earlier generation; a tag and the bundle
\* are selected, and perhaps a template
InitGen ==
    /\ settings = SettingsRecord("custom", "k", TRUE)
    /\ history = <<OldHistoryItem>>
    /\ templates = <<Template(2, {"x"}, "old"), Template(1, {}, "old")>>
    /\ bundles = <<Bundle(1, <<1, DanglingId>>, "old")>>
    /\ prompt = "p"
    /\ media \in {NoMedia, "clip.mp4"}
    /\ isAistudio = FALSE
    /\ envApiKey = ""
    /\ importOptions = NoOptions
    /\ imp = NoImport
    /\ lastImport = NoLastImport
    /\ selectedTags = <<"x">>
    /\ selectedBundles = bundles
    /\ selectedIndividualTemplates = <<templates[2]>>
    /\ AtRest

NextGen ==
    \/ DeleteTemplate
    \/ TxComplete
    \/ HandleSubmit
    \/ MediaConverted
    \/ MediaFailed
    \/ StreamOpened
    \/ StreamSetupFailed
    \/ StreamChunk
    \/ StreamFailed
    \/ StreamEnded

SpecGen == InitGen /\ [][NextGen]_vars

\* every promise handleSubmit awaits settles: the file read, the request
\* that opens the stream, and the iteration over the stream
GenFairness ==
    /\ WF_vars(MediaConverted \/ MediaFailed)
    /\ WF_vars(StreamOpened \/ StreamSetupFailed)
    /\ WF_vars(StreamEnded \/ StreamFailed)

SpecGenLive == InitGen /\ [][NextGen]_vars /\ GenFairness

\* --------------------------------------------------- App.handleSaveTemplate
\* the template form hands over a new template under a fresh identifier
\* (editingTemplate is null), or the edited template under its own
SaveTemplate(editingTemplate) ==
    /\ Len(pending) < MaxPending
    /\ \/ /\ ~editingTemplate
          /\ nextId < FirstFreshId + MaxCreated
          /\ LET templateData == Template(nextId, {}, "new")
                 valueToStore == <<templateData>> \o templates
             IN /\ templates' = valueToStore
                /\ pending' =
                      Append(pending, SaveData("templates", valueToStore))
          /\ nextId' = nextId + 1
          /\ toast' = "Template created!"
       \/ /\ editingTemplate
          /\ \E i \in DOMAIN templates :
                LET templateData ==
                        Template(templates[i].id, templates[i].tags, "edited")
                    valueToStore ==
                        [j \in DOMAIN templates |->
                            IF templates[j].id = templateData.id
                            THEN templateData
                            ELSE templates[j]]
                IN /\ templates' = valueToStore
                   /\ pending' =
                         Append(pending, SaveData("templates", valueToStore))
          /\ nextId' = nextId
          /\ toast' = "Template updated!"
    /\ UNCHANGED <<settings, history, bundles, selVars, inputVars, viewVars,
                   genVars, store, saveFailed, impVars, envVars, auxVars>>

\* ------------------------------------------------ SettingsModal.handleSave
\* the keys the settings form may hold when it is saved
FormKeys == {"", "k", "k2"}

\* setSettings(localSettings), and its write-through
HandleSave ==
    /\ Len(pending) < MaxPending
    /\ \E key \in FormKeys :
          LET localSettings == [settings EXCEPT !.apiKey = key]
          IN /\ settings' = localSettings
             /\ pending' = Append(pending, SaveData("settings", localSettings))
    /\ UNCHANGED <<history, templates, bundles, selVars, inputVars, viewVars,
                   genVars, store, saveFailed, impVars, toast, nextId, envVars,
                   auxVars>>

\* ------------------------------------------ App.handleSaveTemplateFromHistory
\* the handler up to await generateTemplateMetadata: it closes over the
\* setTemplates of this render, and that over the storedValue of this render.
\* (One save is followed at a time.)
HandleSaveTemplateFromHistory ==
    /\ isSavingTemplate.pc = "none"
    /\ Len(pending) < MaxPending
    /\ nextId < FirstFreshId + MaxCreated
    /\ \E i \in DOMAIN history :
          IF ApiKeyToUse = ""
          THEN /\ toast' = "API key is missing."
               /\ isSavingTemplate' = NoSaving
          ELSE /\ toast' = toast
               /\ isSavingTemplate' =
                     [pc |-> "generateTemplateMetadata",
                      item |-> history[i].id, templates |-> templates]
    /\ UNCHANGED <<memVars, selVars, inputVars, viewVars, genVars, dbVars,
                   impVars, nextId, envVars, loading, exp, backup,
                   confirmModal, batch, loadErrors>>

\* the metadata arrived: setTemplates(prev => [newTemplate, ...prev]) through
\* the setter the handler closed over, its write-through, and the toast.
\* (The templates change, so no earlier clear speaks of them any more.)
MetadataGenerated ==
    /\ isSavingTemplate.pc = "generateTemplateMetadata"
    /\ LET newTemplate == Template(nextId, {}, "saved")
           valueToStore == <<newTemplate>> \o isSavingTemplate.templates
       IN /\ templates' = valueToStore
          /\ pending' = Append(pending, SaveData("templates", valueToStore))
    /\ nextId' = nextId + 1
    /\ toast' = "Template saved successfully!"
    /\ isSavingTemplate' = NoSaving
    /\ confirmModal' = [confirmModal EXCEPT !.cleared = @ \ {"templates"},
                                            !.durable = @ \ {"templates"}]
    /\ UNCHANGED <<settings, history, bundles, selVars, inputVars, viewVars,
                   genVars, store, saveFailed, impVars, envVars, loading, exp,
                   backup, batch, loadErrors>>

\* generateTemplateMetadata rejected: the catch block and finally
MetadataFailed ==
    /\ isSavingTemplate.pc = "generateTemplateMetadata"
    /\ toast' = "Failed to generate template metadata."
    /\ isSavingTemplate' = NoSaving
    /\ UNCHANGED <<memVars, selVars, inputVars, viewVars, genVars, dbVars,
                   impVars, nextId, envVars, loading, exp, backup,
                   confirmModal, batch, loadErrors>>

\* ------------------------------ BatchAddTemplatesModal.handleGenerateAndSave
\* the values of the prompt fields: empty, blank, or a text
PromptFields ==
    UNION {[1 .. n -> {"", " ", "p", " q"}] : n \in 1 .. MaxPrompts}

\* p.value.trim()
Trim(value) ==
    IF value = " " THEN "" ELSE IF value = " q" THEN "q" ELSE value

NonEmptyPrompts(prompts) == SelectSeq(prompts, LAMBDA p : Trim(p) # "")

\* what JSON.parse(response.text) may be: no JSON at all, an object without
\* templates, or an object whose templates is an array of some length
BatchResults ==
    {[parses |-> FALSE, present |-> FALSE, length |-> 0],
     [parses |-> TRUE, present |-> FALSE, length |-> 0]}
    \cup {[parses |-> TRUE, present |-> TRUE, length |-> n] :
             n \in 0 .. MaxPrompts + 1}

\* (a check that lets a longer array through)
Mismatched_TooFewOnly(result, prompts) ==
    ~result.present \/ result.length < Len(prompts)

\* generateBatchTemplateMetadata:
\* !result.templates || result.templates.length !== prompts.length
Mismatched(result, prompts) ==
    ~result.present \/ result.length # Len(prompts)

\* the handler up to await generateBatchTemplateMetadata: it closes over the
\* onSave of this render, whose setTemplates closes over the storedValue of
\* this render
HandleGenerateAndSave ==
    /\ batch.pc = "none"
    /\ Len(pending) < MaxPending
    /\ nextId < FirstFreshId + MaxCreated
    /\ \E prompts \in PromptFields :
          LET nonEmptyPrompts == NonEmptyPrompts(prompts)
          IN IF Len(nonEmptyPrompts) = 0
             THEN /\ toast' = "Please add at least one prompt."
                  /\ batch' = NoBatch
             ELSE IF ApiKeyToUse = ""
             THEN /\ toast' =
                        "API Key is missing. Please configure it in settings."
                  /\ batch' = NoBatch
             ELSE /\ toast' = toast
                  /\ batch' = [pc |-> "generateBatchTemplateMetadata",
                               prompts |-> prompts,
                               nonEmptyPrompts |-> nonEmptyPrompts,
                               templates |-> templates]
    /\ UNCHANGED <<memVars, selVars, inputVars, viewVars, genVars, dbVars,
                   impVars, nextId, envVars, loading, exp, backup,
                   confirmModal, isSavingTemplate, loadErrors>>

\* the templates the handler builds under fresh ids: the i-th has the i-th
\* prompt sent and the title, description and tags of metadataArray[i]
NewTemplates(nonEmptyPrompts) ==
    [index \in DOMAIN nonEmptyPrompts |->
        [id |-> nextId + index - 1, prompt |-> nonEmptyPrompts[index],
         metadata |-> index, tags |-> {}, title |-> "batch"]]

\* generateContent answered: generateBatchTemplateMetadata parses and checks
\* the answer, and the handler either saves all the templates through onSave
\* (handleSaveBatchTemplates) or shows the message of the error thrown.
\* (batch keeps the answer and the prompts it was an answer to.)
BatchAnswered ==
    /\ batch.pc = "generateBatchTemplateMetadata"
    /\ \E result \in BatchResults :
          /\ batch' = [pc |-> "none", result |-> result,
                       nonEmptyPrompts |-> batch.nonEmptyPrompts]
          /\ IF ~result.parses
             THEN \* JSON.parse throws a SyntaxError
                  /\ toast' = "Unexpected token"
                  /\ UNCHANGED <<templates, pending, nextId>>
             ELSE IF Mismatched(result, batch.nonEmptyPrompts)
             THEN /\ toast' = "AI returned a mismatched number of templates."
                  /\ UNCHANGED <<templates, pending, nextId>>
             ELSE LET newTemplates == NewTemplates(batch.nonEmptyPrompts)
                      valueToStore == newTemplates \o batch.templates
                  IN /\ templates' = valueToStore
                     /\ pending' =
                           Append(pending, SaveData("templates", valueToStore))
                     /\ nextId' = nextId + Len(newTemplates)
                     /\ toast' = ToString(Len(newTemplates))
                                   \o " templates added successfully!"
    /\ UNCHANGED <<settings, history, bundles, selVars, inputVars, viewVars,
                   genVars, store, saveFailed, impVars, envVars, loading, exp,
                   backup, confirmModal, isSavingTemplate, loadErrors>>

\* generateContent rejected with an error that has no message
BatchRejected ==
    /\ batch.pc = "generateBatchTemplateMetadata"
    /\ batch' = NoBatch
    /\ toast' = "Failed to generate metadata."
    /\ UNCHANGED <<memVars, selVars, inputVars, viewVars, genVars, dbVars,
                   impVars, nextId, envVars, loading, exp, backup,
                   confirmModal, isSavingTemplate, loadErrors>>

\* ------------------------------------------------------------ App import
\* the documents a backup file may hold.  An incoming record either bears
\* the identifier of a record of the session (1) or one no record of the
\* session has; its other fields differ from those of the session's records
ImportedId == FirstFreshId + MaxGenerations + MaxCreated

Incoming(name, kind) ==
    LET id == IF kind = "existing" THEN 1 ELSE ImportedId
    IN CASE name = "history" -> HistoryItem(id, <<"F">>, << >>, << >>)
         [] name = "templates" -> Template(id, {}, "imported")
         [] name = "bundles" -> Bundle(id, << >>, "imported")

ImportShapes ==
    UNION {[1 .. n -> {"existing", "new"}] : n \in 0 .. MaxImport}

Items(name, shape) == [i \in DOMAIN shape |-> Incoming(name, shape[i])]

\* what the document has under a key: an array, a value that is no array,
\* or nothing (the key is absent)
Array(items) == [present |-> TRUE, isArray |-> TRUE, items |-> items]
NoArray == [present |-> TRUE, isArray |-> FALSE, items |-> << >>]
Absent == [present |-> FALSE, isArray |-> FALSE, items |-> << >>]

\* the value under the key settings: none (absent or null), the record
\* handleExportData writes, or a record without the key property
ImportedSettings(kind) ==
    [kind |-> kind,
     record |-> [key |-> "user-settings",
                 value |-> SettingsRecord("environment", "imported", TRUE)]]

Document(parses, st, h, t, b) ==
    [parses |-> parses, settings |-> st, history |-> h, templates |-> t,
     bundles |-> b]

ImportDocs ==
    {Document(TRUE, ImportedSettings("none"), Absent,
              Array(Items("templates", shape)), Absent) :
        shape \in ImportShapes}
    \cup
    {Document(TRUE, ImportedSettings(kind),
              Array(Items("history", <<"existing", "new">>)),
              Array(Items("templates", <<"existing", "new">>)),
              Array(Items("bundles", <<"existing", "new">>))) :
        kind \in {"keyed", "unkeyed"}}
    \cup
    {Document(TRUE, ImportedSettings("keyed"), NoArray,
              Array(Items("templates", <<"existing", "new">>)),
              Array(Items("bundles", <<"existing", "new">>)))}
    \cup
    {Document(FALSE, ImportedSettings("none"), Absent, Absent, Absent)}

\* the collections as the session holds them
Memory ==
    [settings |-> settings, history |-> history, templates |-> templates,
     bundles |-> bundles]

\* ------------------------------------------------------------ App export
\* what ExportOptionsModal hands to onConfirm: every box is checked unless
\* toggled
ExportOptionSets == {Options(TRUE, TRUE, TRUE, TRUE),
                     Options(FALSE, FALSE, FALSE, FALSE)}

ExportOrder == <<"settings", "history", "templates", "bundles">>

\* the first selected key at or after position i of ExportOrder, or one
\* past its end
RECURSIVE NextSelected(_, _)
NextSelected(options, i) ==
    IF i > Len(ExportOrder) THEN i
    ELSE IF options[ExportOrder[i]] THEN i
    ELSE NextSelected(options, i + 1)

Position(name) == CHOOSE i \in DOMAIN ExportOrder : ExportOrder[i] = name

\* exportData = {}
EmptyExport ==
    Document(TRUE, ImportedSettings("none"), Absent, Absent, Absent)

\* exportData.x = what the read returned
Exported(data, name) ==
    IF name = "settings"
    THEN LET settingsData == GetSingleObject(store.settings, "user-settings")
         IN [data EXCEPT !.settings =
                IF settingsData # Undefined
                THEN [kind |-> "keyed", record |-> settingsData]
                ELSE ImportedSettings("none")]
    ELSE [data EXCEPT ![name] = Array(GetStoreData(store[name]))]

\* handleTriggerExport, handleExportData up to its first await
HandleExportData ==
    /\ exp.pc = "none"
    /\ Len(pending) < MaxPending
    /\ \E options \in ExportOptionSets :
          LET i == NextSelected(options, 1)
          IN IF i > Len(ExportOrder)
             THEN /\ toast' = "Nothing selected to export."
                  /\ UNCHANGED <<exp, pending>>
             ELSE /\ exp' = [pc |-> ExportOrder[i], options |-> options,
                             data |-> EmptyExport, memory |-> Memory]
                  /\ pending' = Append(pending, ReadTx(ExportOrder[i], "export"))
                  /\ UNCHANGED toast
    /\ UNCHANGED <<memVars, selVars, inputVars, viewVars, genVars, store,
                   saveFailed, impVars, nextId, envVars, loading, backup,
                   confirmModal, batch,
                   isSavingTemplate, loadErrors>>

\* the read handleExportData awaits has succeeded: the next read, or the
\* file.  (memory records the collections of the session as the file is
\* written, steady that they were the same when the export began,
\* installed whether the file has been taken to another profile.)
ExportRead ==
    /\ exp.pc # "none"
    /\ \E i \in DOMAIN pending :
          /\ IsFirstOfStore(i)
          /\ IsReadBy(pending[i], "export")
          /\ LET data == Exported(exp.data, exp.pc)
                 j == NextSelected(exp.options, Position(exp.pc) + 1)
             IN IF j > Len(ExportOrder)
                THEN /\ backup' = [written |-> TRUE, doc |-> data,
                                   memory |-> Memory,
                                   steady |-> (exp.memory = Memory),
                                   installed |-> FALSE]
                     /\ toast' = "Data exported successfully!"
                     /\ exp' = NoExport
                     /\ pending' = RemoveAt(pending, i)
                ELSE /\ exp' = [exp EXCEPT !.pc = ExportOrder[j],
                                           !.data = data]
                     /\ pending' = Append(RemoveAt(pending, i),
                                          ReadTx(ExportOrder[j], "export"))
                     /\ UNCHANGED <<backup, toast>>
    /\ UNCHANGED <<memVars, selVars, inputVars, viewVars, genVars, store,
                   saveFailed, impVars, nextId, envVars, loading,
                   confirmModal, batch,
                   isSavingTemplate, loadErrors>>

\* the read has failed: the catch block
ExportReadFailed ==
    /\ exp.pc # "none"
    /\ \E i \in DOMAIN pending :
          /\ IsFirstOfStore(i)
          /\ IsReadBy(pending[i], "export")
          /\ pending' = RemoveAt(pending, i)
    /\ toast' = "Failed to export data."
    /\ exp' = NoExport
    /\ UNCHANGED <<memVars, selVars, inputVars, viewVars, genVars, store,
                   saveFailed, impVars, nextId, envVars, loading, backup,
                   confirmModal, batch,
                   isSavingTemplate, loadErrors>>

\* the backup file is taken to a profile whose stores are empty, and the
\* app is opened there
EmptyStores == [name \in StoreNames |-> << >>]

Install ==
    /\ backup.written
    /\ ~backup.installed
    /\ pc = "idle"
    /\ imp.pc = "none"
    /\ exp.pc = "none"
    /\ pending = << >>
    /\ Mount(EmptyStores)
    /\ backup' = [backup EXCEPT !.installed = TRUE]
    /\ lastImport' = NoLastImport
    /\ saveFailed' = FALSE
    /\ UNCHANGED <<genVars, imp, nextId, envVars, exp, confirmModal, batch,
                   isSavingTemplate>>

\* the files the file dialog offers besides the documents above
BackupFiles == IF backup.written THEN {backup.doc} ELSE {}

\* what ImportOptionsModal hands to onConfirm: its settings box is disabled
\* and stays unchecked, the other three are checked unless toggled
ImportOptionSets == {Options(FALSE, TRUE, TRUE, TRUE)}

\* handleTriggerImport: the options dialog closes and the file dialog opens
HandleTriggerImport ==
    /\ \E options \in ImportOptionSets : importOptions' = options
    /\ UNCHANGED <<memVars, selVars, inputVars, viewVars, genVars, dbVars,
                   imp, lastImport, toast, nextId, envVars, auxVars>>

\* handleImportFileChange: a file was chosen; reader.onload closes over the
\* importOptions and the setters of this render, and each setter over the
\* storedValue of this render.  (store and quiet record what the stores
\* held at this moment and whether any transaction was still running.)
HandleImportFileChange ==
    /\ imp.pc = "none"
    /\ lastImport.n < MaxImportRuns
    /\ Len(pending) < MaxPending
    /\ \E doc \in ImportDocs \cup BackupFiles :
          imp' = [pc |-> "readAsText", doc |-> doc,
                  importOptions |-> importOptions,
                  history |-> history, templates |-> templates,
                  bundles |-> bundles,
                  store |-> store, quiet |-> (pending = << >>)]
    /\ UNCHANGED <<memVars, selVars, inputVars, viewVars, genVars, dbVars,
                   importOptions, lastImport, toast, nextId, envVars, auxVars>>

\* (a merge that took every incoming record)
NewItems_All(prev, incoming) == incoming

\* the updater of the merge: newItems and combined
NewItems(prev, incoming) ==
    SelectSeq(incoming, LAMBDA item : item.id \notin Ids(prev))

Combined(prev, incoming) == prev \o NewItems(prev, incoming)

\* importOptions.x && 'x' in importedData && Array.isArray(importedData.x)
Applies(name) ==
    /\ imp.importOptions[name]
    /\ imp.doc[name].present
    /\ imp.doc[name].isArray

\* the two transactions of one merged collection: db.setStoreData inside
\* the updater, then the write-through of the setter
MergeWrites(name, combined) ==
    IF Applies(name)
    THEN <<SetStoreDataTx(name, combined), SaveData(name, combined)>>
    ELSE << >>

\* this import has the document and the options of the one before it, and
\* starts where that one ended: its transactions had finished when the file
\* was chosen, and the collections are as it left them
InARow ==
    /\ "doc" \in DOMAIN lastImport
    /\ lastImport.doc = imp.doc
    /\ lastImport.importOptions = imp.importOptions
    /\ lastImport.memory = Memory
    /\ imp.quiet
    /\ imp.history = history
    /\ imp.templates = templates
    /\ imp.bundles = bundles

\* onload from the history merge on: the three merges, each through the
\* setter onload closed over, and the toast.  queue is pending as the
\* settings branch left it
ImportMerge(queue) ==
    LET h == Combined(imp.history, imp.doc.history.items)
        t == Combined(imp.templates, imp.doc.templates.items)
        b == Combined(imp.bundles, imp.doc.bundles.items)
    IN /\ history' = IF Applies("history") THEN h ELSE history
       /\ templates' = IF Applies("templates") THEN t ELSE templates
       /\ bundles' = IF Applies("bundles") THEN b ELSE bundles
       /\ pending' = queue \o MergeWrites("history", h)
                           \o MergeWrites("templates", t)
                           \o MergeWrites("bundles", b)
       /\ toast' = "Data imported successfully!"
       /\ imp' = NoImport
       /\ lastImport' = [n |-> lastImport.n + 1,
                         doc |-> imp.doc,
                         importOptions |-> imp.importOptions,
                         repeat |-> InARow,
                         found |-> [memory |-> Memory, store |-> imp.store,
                                    quiet |-> imp.quiet],
                         memory |-> Memory']

\* the catch block of onload
ImportCatch ==
    /\ toast' = "Failed to read or process the backup file."
    /\ imp' = NoImport
    /\ lastImport' = [n |-> lastImport.n + 1, repeat |-> FALSE]

\* importOptions.settings && 'settings' in importedData && importedData.settings
AppliesSettings ==
    imp.importOptions.settings /\ imp.doc.settings.kind # "none"

\* reader.onload up to its first await, or to its end
ImportOnload ==
    /\ imp.pc = "readAsText"
    /\ IF ~imp.doc.parses
       THEN \* JSON.parse throws
            /\ ImportCatch
            /\ UNCHANGED <<memVars, pending>>
       ELSE IF AppliesSettings
       THEN IF imp.doc.settings.kind = "unkeyed"
            THEN \* store.put throws: the record has no key
                 /\ ImportCatch
                 /\ UNCHANGED <<memVars, pending>>
            ELSE \* await db.setSingleObject('settings', importedData.settings)
                 /\ pending' =
                       Append(pending,
                              SetSingleObjectTx("settings",
                                                imp.doc.settings.record)
                                 @@ [awaited |-> TRUE])
                 /\ imp' = [imp EXCEPT !.pc = "setSingleObject"]
                 /\ UNCHANGED <<memVars, lastImport, toast>>
       ELSE /\ UNCHANGED settings
            /\ ImportMerge(pending)
    /\ UNCHANGED <<selVars, inputVars, viewVars, genVars, store, saveFailed,
                   importOptions, nextId, envVars, auxVars>>

\* the awaited transaction completed: setSettings(importedData.settings.value)
\* and the rest of onload.  (This step and the next need importOptions.settings,
\* which no value of ImportOptionSets has.)
ImportSettingsStored ==
    /\ imp.pc = "setSingleObject"
    /\ \E i \in DOMAIN pending :
          /\ IsFirstOfStore(i)
          /\ IsAwaited(pending[i])
          /\ pending[i].kind = "setSingleObject"
          /\ store' = TxEffect(store, pending[i])
          /\ settings' = imp.doc.settings.record.value
          /\ ImportMerge(Append(RemoveAt(pending, i),
                                SaveData("settings", settings')))
    /\ isWelcomeModalOpen' = AfterRender(loading.settings, settings')
    /\ UNCHANGED <<selVars, prompt, media, config, viewVars, genVars,
                   saveFailed, importOptions, nextId, envVars, auxVars>>

\* the awaited transaction failed: the rejection reaches the catch block
ImportSettingsFailed ==
    /\ imp.pc = "setSingleObject"
    /\ \E i \in DOMAIN pending :
          /\ IsFirstOfStore(i)
          /\ IsAwaited(pending[i])
          /\ pending[i].kind = "setSingleObject"
          /\ pending' = RemoveAt(pending, i)
    /\ saveFailed' = TRUE
    /\ ImportCatch
    /\ UNCHANGED <<memVars, selVars, inputVars, viewVars, genVars, store,
                   importOptions, nextId, envVars, auxVars>>

\* ------------------------------------------------- clearing a collection
\* no transaction on the store is waiting, and none has failed
WritesDone(name) ==
    /\ ~saveFailed
    /\ \A i \in DOMAIN pending : pending[i].storeName # name

HoldsRecords(name) == Memory[name] # << >> \/ store[name] # << >>

\* handleClearHistory, confirmed: onConfirm up to await clearStore('history')
HandleClearHistory ==
    /\ confirmModal.pc = "none"
    /\ Len(pending) < MaxPending
    /\ pending' = Append(pending, ClearStoreTx("history"))
    /\ confirmModal' =
          [confirmModal EXCEPT
              !.pc = "history",
              !.cleared = @ \ {"history"},
              !.durable = @ \ {"history"},
              !.emptied = IF HoldsRecords("history")
                          THEN @ \cup {"history"} ELSE @ \ {"history"}]
    /\ UNCHANGED <<memVars, selVars, inputVars, viewVars, genVars, store,
                   saveFailed, impVars, toast, nextId, envVars, loading, exp,
                   backup, batch,
                   isSavingTemplate, loadErrors>>

\* handleClearTemplates, confirmed: onConfirm up to
\* await clearStore('templates')
HandleClearTemplates ==
    /\ confirmModal.pc = "none"
    /\ Len(pending) < MaxPending
    /\ pending' = Append(pending, ClearStoreTx("templates"))
    /\ confirmModal' =
          [confirmModal EXCEPT
              !.pc = "templates",
              !.cleared = @ \ {"templates", "bundles"},
              !.durable = @ \ {"templates", "bundles"},
              !.emptied =
                 (@ \ {"templates", "bundles"})
                 \cup {name \in {"templates", "bundles"} : HoldsRecords(name)}]
    /\ UNCHANGED <<memVars, selVars, inputVars, viewVars, genVars, store,
                   saveFailed, impVars, toast, nextId, envVars, loading, exp,
                   backup, batch,
                   isSavingTemplate, loadErrors>>

\* the clear request succeeded and onConfirm runs on: to its next await,
\* or through the setters (each with its write-through) to the toast
ClearStoreDone ==
    /\ \E i \in DOMAIN pending :
          /\ IsFirstOfStore(i)
          /\ pending[i].kind = "clearStore"
          /\ store' = TxEffect(store, pending[i])
          /\ LET rest == RemoveAt(pending, i)
             IN CASE confirmModal.pc = "history" ->
                       /\ history' = << >>
                       /\ pending' = Append(rest, SaveData("history", << >>))
                       /\ toast' = "History cleared!"
                       /\ confirmModal' =
                             [confirmModal EXCEPT
                                 !.pc = "none",
                                 !.cleared = @ \cup {"history"},
                                 !.durable = @ \cup {"history"}]
                       /\ UNCHANGED <<settings, templates, bundles>>
                  [] confirmModal.pc = "templates" ->
                       /\ pending' = Append(rest, ClearStoreTx("bundles"))
                       /\ confirmModal' = [confirmModal EXCEPT !.pc = "bundles"]
                       /\ UNCHANGED <<memVars, toast>>
                  [] confirmModal.pc = "bundles" ->
                       /\ templates' = << >>
                       /\ bundles' = << >>
                       /\ pending' = rest \o <<SaveData("templates", << >>),
                                                SaveData("bundles", << >>)>>
                       /\ toast' = "Templates and bundles cleared!"
                       /\ confirmModal' =
                             [confirmModal EXCEPT
                                 !.pc = "none",
                                 !.cleared = @ \cup {"templates", "bundles"},
                                 !.durable = @ \cup {"templates", "bundles"}]
                       /\ UNCHANGED <<settings, history>>
    /\ UNCHANGED <<selVars, inputVars, viewVars, genVars, saveFailed,
                   impVars, nextId, envVars, loading, exp, backup, batch,
                   isSavingTemplate, loadErrors>>

\* the clear request failed: clearStore rejects and onConfirm ends there
ClearStoreFailed ==
    /\ \E i \in DOMAIN pending :
          /\ IsFirstOfStore(i)
          /\ pending[i].kind = "clearStore"
          /\ pending' = RemoveAt(pending, i)
    /\ confirmModal' = [confirmModal EXCEPT !.pc = "none"]
    /\ UNCHANGED <<memVars, selVars, inputVars, viewVars, genVars, store,
                   saveFailed, impVars, toast, nextId, envVars, loading, exp,
                   backup, batch,
                   isSavingTemplate, loadErrors>>

\* confirmDeleteItemAction: setHistory(prev => prev.filter(...)) with the
\* setter of the current render, and its write-through
ConfirmDeleteItemAction ==
    /\ Len(pending) < MaxPending
    /\ \E i \in DOMAIN history :
          LET valueToStore == FilterOutId(history, history[i].id)
          IN /\ history' = valueToStore
             /\ pending' = Append(pending, SaveData("history", valueToStore))
    /\ toast' = "Item deleted from history."
    /\ UNCHANGED <<settings, templates, bundles, selVars, inputVars, viewVars,
                   genVars, store, saveFailed, impVars, nextId, envVars, auxVars>>

\* the page is loaded again over the stores as they are; a transaction
\* that had not finished is lost.  (One reload is followed.)
Reload ==
    /\ pc = "idle"
    /\ imp.pc = "none"
    /\ exp.pc = "none"
    /\ confirmModal.pc = "none"
    /\ ~confirmModal.reloaded
    /\ batch.pc = "none"
    /\ isSavingTemplate.pc = "none"
    /\ Mount(store)
    /\ confirmModal' =
          [confirmModal EXCEPT
              !.durable = {name \in @ : WritesDone(name)},
              !.reloaded = TRUE]
    /\ UNCHANGED <<genVars, imp, lastImport, saveFailed, nextId, envVars,
                   exp, backup, batch, isSavingTemplate>>

\* ------------------------------------------------------- the page is opened
\* what the stores of a profile may hold when the page is opened: nothing,
\* or records of earlier sessions
StoredContents ==
    [settings : {<< >>, SettingsStore(SettingsRecord("custom", "k", TRUE))},
     history : {<< >>, StoreOf(<<OldHistoryItem>>)},
     templates : {<< >>, StoreOf(<<Template(1, {"x"}, "old")>>),
                  StoreOf(<<Template(1, {"x"}, "old"),
                            Template(2, {}, "older")>>)},
     bundles : {<< >>, StoreOf(<<Bundle(1, <<1>>, "old")>>)}]

\* the page is opened in such a profile.  (One opening is followed.)
Open ==
    /\ pc = "idle"
    /\ imp.pc = "none"
    /\ exp.pc = "none"
    /\ confirmModal.pc = "none"
    /\ ~confirmModal.reloaded
    /\ batch.pc = "none"
    /\ isSavingTemplate.pc = "none"
    /\ \E newStore \in StoredContents : Mount(newStore)
    /\ confirmModal' = [NoConfirm EXCEPT !.reloaded = TRUE]
    /\ saveFailed' = FALSE
    /\ UNCHANGED <<genVars, imp, lastImport, nextId, envVars, exp, backup,
                   batch, isSavingTemplate>>

\* ------------------------------------------------------ imports at work
InitImport ==
    /\ settings = SettingsRecord("custom", "k", TRUE)
    /\ history = <<OldHistoryItem>>
    /\ templates = <<Template(1, {"x"}, "old")>>
    /\ bundles = <<Bundle(1, <<1>>, "old")>>
    /\ prompt = "p"
    /\ media = NoMedia
    /\ isAistudio = FALSE
    /\ envApiKey = ""
    /\ importOptions = NoOptions
    /\ imp = NoImport
    /\ lastImport = NoLastImport
    /\ NothingSelected
    /\ AtRest

NextImport ==
    \/ HandleTriggerImport
    \/ HandleImportFileChange
    \/ ImportOnload
    \/ SaveTemplate(FALSE)
    \/ TxComplete

SpecImport == InitImport /\ [][NextImport]_vars

\* a backup is written, taken to an empty profile and imported there
Moved == backup.written /\ backup.installed

NextRoundTrip ==
    \/ ~Moved /\ HandleExportData
    \/ ExportRead
    \/ ExportReadFailed
    \/ Install
    \/ LoadDone
    \/ LoadFailed
    \/ HandleTriggerImport
    \/ Moved /\ HandleImportFileChange
    \/ ImportOnload
    \/ TxComplete

SpecRoundTrip == InitImport /\ [][NextRoundTrip]_vars

\* imports alone, with transactions that may fail
NextReimport ==
    \/ HandleTriggerImport
    \/ HandleImportFileChange
    \/ ImportOnload
    \/ TxComplete
    \/ TxError

SpecReimport == InitImport /\ [][NextReimport]_vars

\* clears, deletions, saves from history that end while a clear is under
\* way, transactions that may fail, a reload
InitClear ==
    /\ settings = SettingsRecord("custom", "k", TRUE)
    /\ history = <<OldHistoryItem, HistoryItem(2, <<"B">>, << >>, << >>)>>
    /\ templates = <<Template(1, {"x"}, "old"), Template(2, {}, "older")>>
    /\ bundles = <<Bundle(1, <<1>>, "old")>>
    /\ prompt = "p"
    /\ media = NoMedia
    /\ isAistudio = FALSE
    /\ envApiKey = ""
    /\ importOptions = NoOptions
    /\ imp = NoImport
    /\ lastImport = NoLastImport
    /\ NothingSelected
    /\ AtRest

NextClear ==
    \/ HandleClearHistory
    \/ HandleClearTemplates
    \/ ClearStoreDone
    \/ ClearStoreFailed
    \/ confirmModal.pc = "none" /\ ConfirmDeleteItemAction
    \/ HandleSaveTemplateFromHistory
    \/ MetadataGenerated
    \/ MetadataFailed
    \/ TxComplete
    \/ TxError
    \/ Reload
    \/ LoadDone
    \/ LoadFailed

SpecClear == InitClear /\ [][NextClear]_vars

\* batches of templates, and saves from history that end meanwhile
InitBatch ==
    /\ \E key \in {"", "k"} : settings = SettingsRecord("custom", key, TRUE)
    /\ history = <<OldHistoryItem>>
    /\ templates = <<Template(1, {"x"}, "old")>>
    /\ bundles = <<Bundle(1, <<1>>, "old")>>
    /\ prompt = "p"
    /\ media = NoMedia
    /\ isAistudio = FALSE
    /\ envApiKey = ""
    /\ importOptions = NoOptions
    /\ imp = NoImport
    /\ lastImport = NoLastImport
    /\ NothingSelected
    /\ AtRest

NextBatch ==
    \/ HandleGenerateAndSave
    \/ BatchAnswered
    \/ BatchRejected
    \/ HandleSaveTemplateFromHistory
    \/ MetadataGenerated
    \/ MetadataFailed
    \/ TxComplete
    \/ TxError

SpecBatch == InitBatch /\ [][NextBatch]_vars

\* mutations of the collections whose write-throughs overlap and all
\* complete
NextStore ==
    \/ SaveTemplate(FALSE)
    \/ DeleteTemplate
    \/ ConfirmDeleteItemAction
    \/ HandleSave
    \/ TxComplete

SpecStore == InitClear /\ [][NextStore]_vars

\* saves and deletions of templates and saves of the settings, with
\* write-throughs that overlap and may fail
NextWrite ==
    \/ SaveTemplate(FALSE)
    \/ DeleteTemplate
    \/ HandleSave
    \/ TxComplete
    \/ TxError

SpecWrite == InitClear /\ [][NextWrite]_vars

\* the page is opened and the four hooks load, each read succeeding or
\* failing
InitLoad ==
    /\ settings = SettingsRecord("custom", "k", TRUE)
    /\ history = << >>
    /\ templates = << >>
    /\ bundles = << >>
    /\ prompt = "p"
    /\ media = NoMedia
    /\ isAistudio \in BOOLEAN
    /\ envApiKey = ""
    /\ importOptions = NoOptions
    /\ imp = NoImport
    /\ lastImport = NoLastImport
    /\ NothingSelected
    /\ AtRest

NextLoad ==
    \/ Open
    \/ LoadDone
    \/ LoadFailed

SpecLoad == InitLoad /\ [][NextLoad]_vars

\* the step in which the stream of the generation in flight ends normally,
\* and the one in which the generation fails
EndsNormally == pc = "stream" /\ pc' = "idle" /\ error' = Null

Fails == pc # "idle" /\ pc' = "idle" /\ error' # Null

\* the records a step adds under an identifier never used before
FreshRecords == {i \in DOMAIN history' : history'[i].id = nextId}

\* C4: the referencedTemplates of the record a successful generation stores
\* is the list of identifiers, in order, of the templates that were
\* forwarded to streamEnhancePrompt for that generation.
C4_RecordNamesForwarded ==
    [][(EndsNormally /\ fullResponse # << >>) =>
          /\ FreshRecords # {}
          /\ \A i \in FreshRecords :
                history'[i].referencedTemplates = IdList(request)]_vars

\* a record of a generation that forwarded two templates, one of which was
\* deleted while the stream was running
C4_Witness ==
    \E r \in Range(history) :
        /\ r.id >= FirstFreshId
        /\ Len(r.referencedTemplates) >= 2
        /\ r.referencedTemplates = IdList(request)
        /\ Range(r.referencedTemplates) \ Ids(templates) # {}

\* C5: while the stream runs the output shown is the concatenation of the
\* fragments that have arrived, in arrival order; when it ends with a
\* non-empty concatenation, exactly one record with a new identifier is
\* added, and its generatedPrompt is that concatenation.
C5_ConcatenationSaved ==
    [][/\ pc' = "stream" => generatedPrompt' = Flatten(chunks')
       /\ (EndsNormally /\ Flatten(chunks) # << >>) =>
             /\ generatedPrompt' = Flatten(chunks)
             /\ Cardinality(FreshRecords) = 1
             /\ \A i \in FreshRecords :
                   history'[i].generatedPrompt = Flatten(chunks)
             /\ Ids(history') \ Ids(history) \subseteq {nextId}]_vars

\* the stream "A", "B", "C" has ended and its record is in the history
C5_Witness ==
    /\ pc = "idle"
    /\ chunks = <<<<"A">>, <<"B">>, <<"C">>>>
    /\ generatedPrompt = <<"A", "B", "C">>
    /\ Cardinality({i \in DOMAIN history :
                      history[i].generatedPrompt = <<"A", "B", "C">>}) = 1
    /\ Len(history) = 2

\* C6: a stream that ends having yielded no fragment, or only fragments
\* without text, adds no history record (and writes nothing).
C6_EmptyStreamSavesNothing ==
    [][(EndsNormally /\ Flatten(chunks) = << >>) =>
          /\ history' = history
          /\ pending' = pending
          /\ nextId' = nextId]_vars

\* a stream of two fragments without text has ended normally, and the
\* history is the one the session started with
C6_Witness ==
    /\ pc = "idle"
    /\ ~isLoading
    /\ error = Null
    /\ serviceCalls >= 1
    /\ Len(chunks) = 2
    /\ Flatten(chunks) = << >>
    /\ history = <<OldHistoryItem>>

\* C7: a failure of the media conversion, of the stream setup or of the
\* stream, after any number of fragments, leaves the history as it was, in
\* memory and in the store, and sets an error message; the history grows
\* only in the step in which a stream ends normally with a non-empty text.
C7_FailureSavesNothing ==
    [][/\ Fails =>
             /\ history' = history
             /\ store' = store
             /\ pending' = pending
             /\ error' \in {"An unknown error occurred.", "quota"}
             /\ ~isLoading'
       /\ history' # history => (EndsNormally /\ fullResponse # << >>)]_vars

\* the stream failed after two fragments had been shown
C7_Witness ==
    /\ pc = "idle"
    /\ error \in {"An unknown error occurred.", "quota"}
    /\ Len(chunks) >= 2
    /\ generatedPrompt = <<"A", "B">>
    /\ history = <<OldHistoryItem>>
    /\ store.history = StoreOf(history)

\* the step in which onload applies the document
Merges ==
    /\ imp.pc # "none"
    /\ lastImport' # lastImport
    /\ "doc" \in DOMAIN lastImport'

\* the incoming records of a collection whose identifier the collection
\* does not hold
Addable(name) ==
    {r \in Range(imp.doc[name].items) : r.id \notin Ids(Memory[name])}

\* C9: an import into history, templates or bundles keeps every record
\* the collection holds, unchanged, and adds the incoming records whose
\* identifier the collection does not hold, and nothing else; no incoming
\* record takes the place of a record with the same identifier.
C9_ImportKeepsAndAdds ==
    [][Merges =>
          \A name \in {"history", "templates", "bundles"} :
              Applies(name) =>
                 /\ Range(Memory[name]) \subseteq Range(Memory'[name])
                 /\ Range(Memory'[name]) \ Range(Memory[name])
                       = Addable(name)
                 /\ \A r \in Range(Memory'[name]) :
                       r.id \in Ids(Memory[name]) =>
                          r \in Range(Memory[name])]_vars

\* a step of the import in flight
ImportStep == imp.pc # "none" /\ imp' # imp

\* the file is no JSON, or the document has, under the key of a selected
\* collection, a value that is no array
Unusable ==
    \/ ~imp.doc.parses
    \/ \E name \in {"history", "templates", "bundles"} :
          /\ imp.importOptions[name]
          /\ imp.doc[name].present
          /\ ~imp.doc[name].isArray

\* C11: an import of a file that is no JSON, or of a document whose value
\* under the key of a selected collection is no array, changes nothing in
\* memory, queues no write to the stores, and ends with the error toast.
C11_UnusableFileChangesNothing ==
    [][(ImportStep /\ Unusable) =>
          /\ Memory' = Memory
          /\ store' = store
          /\ pending' = pending
          /\ imp'.pc = "none"
          /\ toast' = "Failed to read or process the backup file."]_vars

\* the half of C11 the code keeps: a file that is no JSON
C11_MalformedFileChangesNothing ==
    [][(ImportStep /\ ~imp.doc.parses) =>
          /\ Memory' = Memory
          /\ store' = store
          /\ pending' = pending
          /\ imp'.pc = "none"
          /\ toast' = "Failed to read or process the backup file."]_vars

\* no two records of the list have one identifier
NoSharedId(list) ==
    \A i, j \in DOMAIN list : i # j => list[i].id # list[j].id

\* C13: in every reachable state no two records of the history in memory
\* share an identifier, nor two of the templates, nor two of the bundles.
C13_IdsUnique ==
    \A name \in {"history", "templates", "bundles"} : NoSharedId(Memory[name])

\* the document of the import in flight names no identifier twice in one
\* array
FileRepeatsNoId ==
    \A name \in {"history", "templates", "bundles"} :
        NoSharedId(imp.doc[name].items)

\* what holds of C13 in the code: an import of a document that names no
\* identifier twice in one array keeps the identifiers unique
C13_ImportKeepsIdsUniqueUnlessFileRepeats ==
    [][(Merges /\ FileRepeatsNoId /\ C13_IdsUnique) => C13_IdsUnique']_vars

\* the step in which a confirmed clear runs to its end
ClearFinishes ==
    /\ confirmModal.pc # "none"
    /\ confirmModal'.pc = "none"
    /\ confirmModal'.cleared # confirmModal.cleared

\* C14: when a confirmed clear of a collection (history; templates and
\* bundles) has run to its end, the collection has no records in memory and
\* none in its store.
C14_ClearLeavesNoRecords ==
    [][ClearFinishes =>
          \A name \in confirmModal'.cleared \ confirmModal.cleared :
              Memory'[name] = << >> /\ store'[name] = << >>]_vars

\* C14, over the states that follow: a cleared collection has no records
\* in memory and none in its store, nor after a reload.
C14_ClearedStaysEmpty ==
    \A name \in confirmModal.cleared :
        Memory[name] = << >> /\ store[name] = << >>

\* what holds of C14 in the code: once a confirmed clear of a collection has
\* run to its end, the collection has no records in memory; once the transactions on its store
\* have finished, none of them having failed, it has none in its store
\* either, and it has none in memory after a reload made from then on.
C14_ClearEmptiesOnceWritesDone ==
    \A name \in confirmModal.durable :
        /\ Memory[name] = << >>
        /\ WritesDone(name) => store[name] = << >>

\* history, templates and bundles held records, were cleared, and the page
\* has been reloaded and has loaded them since
C14_Witness ==
    /\ confirmModal.durable = {"history", "templates", "bundles"}
    /\ confirmModal.emptied = {"history", "templates", "bundles"}
    /\ confirmModal.reloaded
    /\ \A name \in StoreNames : ~loading[name]

\* the step in which the batch in flight gets its answer
BatchStep == batch.pc # "none" /\ batch'.pc = "none" /\ "result" \in DOMAIN batch'

\* C15: when the answer to a batch of N non-empty prompts has no templates
\* or has templates of a length other than N, the batch fails as a whole:
\* the error is shown, the templates in memory are unchanged, and no write
\* to any store is queued.
C15_MismatchFailsWholeBatch ==
    [][(BatchStep /\ batch'.result.parses
          /\ (~batch'.result.present
                \/ batch'.result.length # Len(batch'.nonEmptyPrompts))) =>
          /\ toast' = "AI returned a mismatched number of templates."
          /\ templates' = templates
          /\ pending' = pending
          /\ store' = store]_vars

\* a batch of two prompts has been answered with one template, and one
\* with three, and the templates are as before
C15_Witness ==
    /\ "result" \in DOMAIN batch
    /\ batch.result.present
    /\ Len(batch.nonEmptyPrompts) = 2
    /\ batch.result.length \in {1, 3}
    /\ toast = "AI returned a mismatched number of templates."

\* the write-through at place i of pending finishes in this step
Finishes(i) ==
    /\ IsFirstOfStore(i)
    /\ ~IsAwaited(pending[i])
    /\ Len(pending') = Len(pending) - 1
    /\ \A j \in DOMAIN pending' :
          LET was == IF j < i THEN pending[j] ELSE pending[j + 1]
          IN /\ pending'[j].kind = was.kind
             /\ pending'[j].storeName = was.storeName
             /\ pending'[j] = was

\* C16: when a setStoreData(storeName, data) completes, the store holds one
\* record for each identifier in data and no other, each of them an item
\* of data, and every other store is as it was.
C16_SetStoreDataOverwrites ==
    [][\A i \in DOMAIN pending :
          (Finishes(i) /\ pending[i].kind = "setStoreData") =>
             LET name == pending[i].storeName
                 data == pending[i].data
             IN /\ DOMAIN store'[name] = Ids(data)
                /\ \A k \in Ids(data) :
                      /\ store'[name][k].id = k
                      /\ store'[name][k] \in Range(data)
                /\ \A other \in StoreNames \ {name} :
                      store'[other] = store[other]]_vars

\* a write of the templates has completed that left out a record the store
\* held: the store holds template 2 and no longer template 1
C16_Witness ==
    /\ pending = << >>
    /\ DOMAIN store.templates = {2}
    /\ templates = <<Template(2, {}, "older")>>

\* a write is a setStoreData or a setSingleObject nobody awaits
IsWriteThrough(tx) ==
    tx.kind \in {"setStoreData", "setSingleObject"} /\ ~IsAwaited(tx)

\* the value a write-through carries
ValueOf(tx) == IF tx.kind = "setSingleObject" THEN tx.data.value ELSE tx.data

\* this step is a call of a setter: it queues one write-through
SetterCall ==
    /\ Len(pending') = Len(pending) + 1
    /\ IsWriteThrough(pending'[Len(pending')])

\* C17: a call of a setter with the value v leaves v in memory in the same
\* step, while its write-through is still queued; and the step in which a
\* write-through completes or fails leaves every value in memory as it is.
C17_MemorySetAtOnceAndKept ==
    [][/\ SetterCall =>
             LET tx == pending'[Len(pending')]
             IN Memory'[tx.storeName] = ValueOf(tx)
       /\ \A i \in DOMAIN pending :
             (Finishes(i) /\ IsWriteThrough(pending[i])) =>
                Memory' = Memory]_vars

\* the write-through of a deletion has failed: memory holds the templates
\* without the deleted one, the store still holds both
C17_Witness ==
    /\ saveFailed
    /\ pending = << >>
    /\ templates = <<Template(2, {}, "older")>>
    /\ DOMAIN store.templates = {1, 2}

\* the store holds exactly what memory holds of the collection
StoreHolds(name) ==
    IF name = "settings"
    THEN /\ DOMAIN store.settings = {"user-settings"}
         /\ store.settings["user-settings"].value = settings
    ELSE /\ DOMAIN store[name] = Ids(Memory[name])
         /\ \A i \in DOMAIN Memory[name] :
               store[name][Memory[name][i].id] = Memory[name][i]

\* C18: whatever mutations of a collection were made and however their
\* write-throughs overlapped, once no transaction on its store is waiting
\* and none has failed, the store holds exactly the value in memory, which
\* is the value of the latest mutation.
C18_LaterWriteWins ==
    \A name \in StoreNames : WritesDone(name) => StoreHolds(name)

\* a template was saved and another deleted, in either order, and both
\* write-throughs have completed: memory and store hold the new template and
\* template 2
C18_Witness ==
    /\ WritesDone("templates")
    /\ IdList(templates) = <<FirstFreshId, 2>>
    /\ DOMAIN store.templates = {2, FirstFreshId}

\* the default each hook of App is given
Default(name) ==
    IF name = "settings"
    THEN SettingsRecord(IF isAistudio THEN "environment" ELSE "custom", "",
                        FALSE)
    ELSE << >>

\* the step in which the load of this store ends, either way
LoadEnds(name) == loading[name] /\ ~loading'[name]

\* C19: the step in which the load of a store ends queues no transaction
\* and leaves every store as it is; when the store holds no record (no
\* settings record, for the settings) the value in memory after it is the
\* default.
C19_LoadNeverWrites ==
    [][\A name \in StoreNames :
          LoadEnds(name) =>
             /\ store' = store
             /\ Len(pending') = Len(pending) - 1
             /\ \A j \in DOMAIN pending' : pending'[j].kind = "read"
             /\ store[name] = << >> => Memory'[name] = Default(name)]_vars

\* all four loads have succeeded over stores that hold no settings record
\* and no templates: memory holds the defaults and the stores are still
\* empty
C19_Witness ==
    /\ confirmModal.reloaded
    /\ loadErrors = {}
    /\ \A name \in StoreNames : ~loading[name]
    /\ store.settings = << >>
    /\ store.templates = << >>
    /\ settings = Default("settings")
    /\ templates = << >>

\* C20: when the read of a store fails on mount, the value in memory is the
\* default, the loading flag of that hook is false, and nothing reaches
\* the caller: no toast, no error shown, the stores as they were.
C20_FailedLoadFallsBack ==
    [][\A name \in loadErrors' \ loadErrors :
          /\ Memory'[name] = Default(name)
          /\ ~loading'[name]
          /\ toast' = toast
          /\ error' = error
          /\ store' = store]_vars

\* the reads of the settings and of the templates have failed over stores
\* that hold a settings record and templates: memory holds the defaults
C20_Witness ==
    /\ {"settings", "templates"} \subseteq loadErrors
    /\ store.settings # << >>
    /\ store.templates # << >>
    /\ settings = Default("settings")
    /\ templates = << >>
    /\ ~loading.settings /\ ~loading.templates

\* the step in which a write-through fails for the first time
FirstFailure ==
    /\ ~saveFailed
    /\ saveFailed'
    /\ \E i \in DOMAIN pending : Finishes(i) /\ IsWriteThrough(pending[i])

\* C21: the step in which a write-through fails shows a notification, and
\* leaves the value in memory as the mutation set it.
C21_WriteFailureNotified ==
    [][FirstFailure => (toast' # toast /\ toast' # Null /\ Memory' = Memory)]_vars

\* what holds of C21 in the code: the step in which a write-through fails
\* leaves memory as the mutation set it and the toast as it was (saveData
\* logs the failure and nothing else)
C21_WriteFailureOnlyLogged ==
    [][FirstFailure => (toast' = toast /\ Memory' = Memory)]_vars

\* the step in which the clearStore a confirmed clear awaits fails
ClearFails ==
    /\ confirmModal.pc # "none"
    /\ confirmModal'.pc = "none"
    /\ confirmModal'.cleared = confirmModal.cleared

\* C22: when the store call of a confirmed clear (of the history; of the
\* templates and bundles) fails, the clear ends with an error notification.
C22_ClearFailureNotified ==
    [][ClearFails => (toast' # toast /\ toast' # Null)]_vars

\* the steps in which the metadata request of a batch add, or of a save
\* from history, is rejected
BatchFails ==
    batch.pc # "none" /\ batch'.pc = "none" /\ "result" \notin DOMAIN batch'

SaveFromHistoryFails ==
    /\ isSavingTemplate.pc # "none"
    /\ isSavingTemplate'.pc = "none"
    /\ nextId' = nextId

\* what holds of C22 in the code, for batch add and save from history: a
\* rejected metadata request ends the action with its error notification,
\* the action idle again and the templates as they were
C22_MetadataFailureNotified ==
    [][/\ BatchFails =>
             (toast' = "Failed to generate metadata." /\ templates' = templates)
       /\ SaveFromHistoryFails =>
             /\ toast' = "Failed to generate template metadata."
             /\ templates' = templates]_vars

\* C23: while a handleSubmit is in flight isLoading is true, so the generate
\* button is disabled and no second handleSubmit starts: at most one
\* generation is in flight.
C23_OneGenerationInFlight == pc # "idle" => isLoading

\* a stream has yielded fragments, and the button is disabled
C23_Witness ==
    /\ pc = "stream"
    /\ chunks # << >>
    /\ isLoading
    /\ ~ENABLED HandleSubmit

\* C24: a generation that has set isLoading sets it back to false once its
\* file read, request or stream has terminated (by a normal end, an empty
\* output or an error), and isLoading is true only while a submit is between
\* its start and its termination.
C24_LoadingEnds ==
    /\ isLoading ~> ~isLoading
    /\ [](isLoading => pc # "idle")

\* a generation has failed after its stream was opened, and the button is
\* enabled again
C24_Witness ==
    /\ serviceCalls > 0
    /\ error # Null
    /\ pc = "idle"
    /\ ~isLoading

\* a generation and a save from history, with deletions of single history
\* items and templates while they are in flight
InitOverlap == InitBatch /\ settings.apiKey # ""

NextOverlap ==
    \/ HandleSubmit
    \/ StreamOpened
    \/ StreamChunk
    \/ StreamEnded
    \/ HandleSaveTemplateFromHistory
    \/ MetadataGenerated
    \/ ConfirmDeleteItemAction
    \/ DeleteTemplate
    \/ TxComplete

SpecOverlap == InitOverlap /\ [][NextOverlap]_vars

\* a generation ends and appends its record
GenerationSaves == pc = "stream" /\ pc' = "idle" /\ nextId' # nextId

\* a save from history ends and prepends its template
SaveFromHistorySaves ==
    /\ isSavingTemplate.pc # "none"
    /\ isSavingTemplate'.pc = "none"
    /\ nextId' # nextId

\* C25: the functional update of a finishing action is applied to the latest
\* collection, so a deletion committed while the action was in flight is not
\* lost: the generation's record is put in front of the history as it is
\* then, and the saved template in front of the templates as they are then.
C25_UpdateKeepsEarlierMutations ==
    [][/\ GenerationSaves => history' = <<history'[1]>> \o history
       /\ SaveFromHistorySaves => templates' = <<templates'[1]>> \o templates]_vars

\* the page is opened and a template is created while collections are still
\* being loaded
NextEarly ==
    \/ Open
    \/ LoadDone
    \/ confirmModal.reloaded /\ SaveTemplate(FALSE)
    \/ TxComplete

SpecEarly == InitLoad /\ [][NextEarly]_vars

\* a template has been created since the page was opened
CreatedSinceOpen == confirmModal.reloaded /\ nextId > FirstFreshId

\* C26: a mutation made through the setter before the mount-time load of its
\* collection has completed is not overwritten by the load: once the load and
\* the write-through have finished, memory and store agree and both hold the
\* created template.
C26_EarlyMutationSurvivesLoad ==
    (CreatedSinceOpen /\ WritesDone("templates")) =>
        /\ StoreHolds("templates")
        /\ FirstFreshId \in Ids(templates)

\* a template is deleted with the button of its card
TemplateDeleted ==
    /\ Len(templates') < Len(templates)
    /\ toast' = "Template deleted."

\* C27: deleting a template changes only the template collection: the bundles
\* with their templateIds and the history records with their
\* referencedTemplates stay as they are, in memory and in the store, and the
\* only write that is started is the one of the templates.
C27_DeleteTemplateNoCascade ==
    [][TemplateDeleted =>
          /\ bundles' = bundles
          /\ history' = history
          /\ settings' = settings
          /\ store' = store
          /\ Len(pending') = Len(pending) + 1
          /\ pending'[Len(pending')].storeName = "templates"]_vars

\* a template has been deleted that a bundle and a history record still
\* refer to
C27_Witness ==
    /\ toast = "Template deleted."
    /\ \E b \in DOMAIN bundles : \E k \in DOMAIN bundles[b].templateIds :
          bundles[b].templateIds[k] \notin Ids(templates)
    /\ \E h \in DOMAIN history :
          \E k \in DOMAIN history[h].referencedTemplates :
             /\ history[h].referencedTemplates[k] \notin Ids(templates)
             /\ history[h].referencedTemplates[k] # DanglingId

\* a batch add ends and saves its templates
BatchSaves == batch.pc # "none" /\ batch'.pc = "none" /\ nextId' # nextId

\* C28: a successful batch add over the N prompts that are not empty after
\* trimming puts exactly N new templates in front of the collection, in the
\* order of the inputs, the i-th with the i-th prompt body and the i-th
\* metadata result; the templates that existed follow unchanged, and blank
\* inputs are not sent and create no template.
C28_BatchPrependsInOrder ==
    [][BatchSaves =>
          LET sent == batch.nonEmptyPrompts
              N == Len(sent)
          IN /\ sent = SelectSeq(batch.prompts,
                                 LAMBDA value : value \notin {"", " "})
             /\ Len(templates') = N + Len(templates)
             /\ \A i \in 1 .. N :
                   /\ templates'[i].prompt = sent[i]
                   /\ templates'[i].metadata = i
                   /\ templates'[i].id \notin Ids(templates)
             /\ \A j \in DOMAIN templates :
                   templates'[N + j] = templates[j]]_vars

\* ------------------------------------------------------- re-running history
\* onChange of the Text / JSON control
setIsJsonMode ==
    /\ \E v \in {"text", "json"} :
          config' = [config EXCEPT !.isJsonMode = (v = "json")]
    /\ UNCHANGED <<memVars, selVars, prompt, media, isWelcomeModalOpen,
                   viewVars, genVars, dbVars, impVars, toast, nextId, envVars,
                   auxVars>>

\* onChange of the style control
setStyle ==
    /\ \E v \in {"default", "anime", "realistic"} :
          config' = [config EXCEPT !.style = v]
    /\ UNCHANGED <<memVars, selVars, prompt, media, isWelcomeModalOpen,
                   viewVars, genVars, dbVars, impVars, toast, nextId, envVars,
                   auxVars>>

\* item.userPrompt.replace(/\s\(media:.*\)/, '')
StripMedia(userPrompt) ==
    IF userPrompt = "p (media: clip.mp4)" THEN "p" ELSE userPrompt

\* (a re-run that keeps the tags that were selected)
HandleRerun_KeepsTags(item) ==
    /\ prompt' = StripMedia(item.userPrompt)
    /\ config' = IF "config" \in DOMAIN item THEN item.config ELSE config
    /\ LET rerunBundles ==
              IF "referencedBundles" \in DOMAIN item
              THEN SelectSeq(bundles,
                             LAMBDA b : Includes(item.referencedBundles, b.id))
              ELSE << >>
       IN selectedBundles' = rerunBundles
    /\ selectedTags' = selectedTags
    /\ selectedIndividualTemplates' = << >>
    /\ media' = NoMedia
    /\ UNCHANGED <<memVars, isWelcomeModalOpen, viewVars, genVars, dbVars,
                   impVars, toast, nextId, envVars, auxVars>>

\* the re-run button of a history item
HandleRerun(item) ==
    /\ prompt' = StripMedia(item.userPrompt)
    /\ config' = IF "config" \in DOMAIN item THEN item.config ELSE config
    /\ LET rerunBundles ==
              IF "referencedBundles" \in DOMAIN item
              THEN SelectSeq(bundles,
                             LAMBDA b : Includes(item.referencedBundles, b.id))
              ELSE << >>
       IN selectedBundles' = rerunBundles
    /\ selectedTags' = << >>
    /\ selectedIndividualTemplates' = << >>
    /\ media' = NoMedia
    /\ UNCHANGED <<memVars, isWelcomeModalOpen, viewVars, genVars, dbVars,
                   impVars, toast, nextId, envVars, auxVars>>

\* a history item of a generation with media, whose second bundle has been
\* deleted since, and an item saved before config and references were recorded
InitRerun ==
    /\ settings = SettingsRecord("custom", "k", TRUE)
    /\ history =
          <<[id |-> 1, userPrompt |-> "p (media: clip.mp4)",
             generatedPrompt |-> <<"A">>,
             config |-> [style |-> "anime", length |-> "short",
                         isJsonMode |-> TRUE, useReasoning |-> TRUE,
                         useMarsLsp |-> TRUE],
             referencedTemplates |-> <<1>>, referencedBundles |-> <<1, 2>>],
            [id |-> 2, userPrompt |-> "q", generatedPrompt |-> <<"B">>]>>
    /\ templates = <<Template(1, {"x"}, "old"), Template(2, {}, "older")>>
    /\ bundles = <<Bundle(1, <<1>>, "old"), Bundle(3, <<2>>, "other")>>
    /\ prompt = "p"
    /\ media \in {NoMedia, "clip.mp4"}
    /\ isAistudio = FALSE
    /\ envApiKey = ""
    /\ importOptions = NoOptions
    /\ imp = NoImport
    /\ lastImport = NoLastImport
    /\ NothingSelected
    /\ AtRest

NextRerun ==
    \/ toggleTag
    \/ toggleBundle
    \/ toggleTemplate
    \/ setIsJsonMode
    \/ setStyle
    \/ \E h \in DOMAIN history : HandleRerun(history[h])

SpecRerun == InitRerun /\ [][NextRerun]_vars

\* what a re-run of the item leaves behind
Rerun(item) ==
    /\ selectedBundles' =
          SelectSeq(bundles,
                    LAMBDA b : /\ "referencedBundles" \in DOMAIN item
                               /\ \E k \in DOMAIN item.referencedBundles :
                                     item.referencedBundles[k] = b.id)
    /\ selectedTags' = << >>
    /\ selectedIndividualTemplates' = << >>
    /\ media' = NoMedia
    /\ "config" \in DOMAIN item => config' = item.config
    /\ history' = history
    /\ templates' = templates
    /\ bundles' = bundles
    /\ store' = store
    /\ pending' = pending

\* C29: re-running a history item selects exactly the existing bundles whose
\* id is in the item's referencedBundles, empties the selected tags and the
\* individually selected templates, clears the media, restores the item's
\* configuration flags when it has a config, and leaves history, templates
\* and bundles unchanged.
C29_RerunRestoresSelection ==
    [][\A h \in DOMAIN history :
          HandleRerun(history[h]) => Rerun(history[h])]_vars

\* the first item has been re-run: its surviving bundle is selected, the
\* bundle it does not reference and the deleted one are not, and its flags
\* are restored
C29_Witness ==
    /\ selectedBundles = <<bundles[1]>>
    /\ config = history[1].config
    /\ selectedTags = << >>
    /\ selectedIndividualTemplates = << >>
    /\ media = NoMedia
    /\ prompt = "p"

\* ------------------------------------------------------ the welcome modal
\* onClose of the welcome modal; the effect runs again with hasSeenWelcome set
HandleCloseWelcomeModal ==
    /\ isWelcomeModalOpen
    /\ Len(pending) < MaxPending
    /\ LET valueToStore == [settings EXCEPT !.hasSeenWelcome = TRUE]
       IN /\ settings' = valueToStore
          /\ pending' = Append(pending, SaveData("settings", valueToStore))
          /\ isWelcomeModalOpen' =
                WelcomeEffect(FALSE, loading.settings, valueToStore)
    /\ UNCHANGED <<history, templates, bundles, selVars, prompt, media, config,
                   viewVars, genVars, store, saveFailed, impVars, toast,
                   nextId, envVars, auxVars>>

\* the page has just been opened, over a store that holds no settings yet or
\* the settings of a user who closed the welcome modal in an earlier session
InitWelcome ==
    /\ isAistudio = FALSE
    /\ envApiKey = ""
    /\ store \in {st \in StoredContents :
                    st.history = << >> /\ st.templates = << >>}
    /\ settings = InitialValue("settings")
    /\ history = InitialValue("history")
    /\ templates = InitialValue("templates")
    /\ bundles = InitialValue("bundles")
    /\ pending = <<ReadTx("settings", "load"), ReadTx("history", "load"),
                   ReadTx("templates", "load"), ReadTx("bundles", "load")>>
    /\ loading = [name \in StoreNames |-> TRUE]
    /\ loadErrors = {}
    /\ isWelcomeModalOpen = FALSE
    /\ config = DefaultConfig
    /\ prompt = ""
    /\ media = NoMedia
    /\ NothingSelected
    /\ isLoading = FALSE
    /\ generatedPrompt = << >>
    /\ error = Null
    /\ pc = "idle"
    /\ gen = NoGen
    /\ fullResponse = << >>
    /\ chunks = << >>
    /\ request = << >>
    /\ serviceCalls = 0
    /\ saveFailed = FALSE
    /\ importOptions = NoOptions
    /\ imp = NoImport
    /\ lastImport = NoLastImport
    /\ exp = NoExport
    /\ backup = NoBackup
    /\ confirmModal = NoConfirm
    /\ batch = NoBatch
    /\ isSavingTemplate = NoSaving
    /\ toast = Null
    /\ nextId = FirstFreshId

NextWelcome ==
    \/ LoadDone
    \/ LoadFailed
    \/ HandleCloseWelcomeModal
    \/ HandleSave
    \/ TxComplete
    \/ TxError
    \/ Reload

SpecWelcome == InitWelcome /\ [][NextWelcome]_vars

\* the settings store holds settings with hasSeenWelcome set: the modal has
\* been closed and the write has completed
StoreSeen ==
    /\ DOMAIN store.settings = {"user-settings"}
    /\ store.settings["user-settings"].value.hasSeenWelcome

WelcomeOpens == ~isWelcomeModalOpen /\ isWelcomeModalOpen'

\* C30: the welcome modal is opened only when the settings load completes and
\* only if the settings then in memory have hasSeenWelcome false; once the
\* modal has been closed and the settings write has completed, the store
\* keeps hasSeenWelcome and no load after it opens the modal again.
C30_WelcomeOnlyUntilSeen ==
    [][/\ WelcomeOpens =>
             /\ loading.settings
             /\ ~loading'.settings
             /\ ~settings'.hasSeenWelcome
             /\ ~StoreSeen
       /\ StoreSeen => StoreSeen']_vars

\* the backup of all four collections has been imported, with every box
\* of the import dialog checked, into the empty profile, once the app had
\* loaded there
RoundTripDone ==
    /\ backup.written
    /\ backup.steady
    /\ backup.installed
    /\ "doc" \in DOMAIN lastImport
    /\ lastImport.n = 1
    /\ lastImport.doc = backup.doc
    /\ lastImport.importOptions = Options(FALSE, TRUE, TRUE, TRUE)
    /\ lastImport.found.quiet
    /\ backup.doc.settings.kind = "keyed"
    /\ \A name \in {"history", "templates", "bundles"} :
          backup.doc[name].isArray

\* C12: after a backup of all four collections has been imported into an
\* empty profile, history, templates and bundles hold the records they held
\* when the backup was written, and the settings are the settings of then.
C12_RoundTripReproduces ==
    RoundTripDone =>
       /\ \A name \in {"history", "templates", "bundles"} :
             Range(lastImport.memory[name]) = Range(backup.memory[name])
       /\ lastImport.memory.settings = backup.memory.settings

\* the part of C12 the code keeps: the three collections
C12_CollectionsReproduced ==
    RoundTripDone =>
       \A name \in {"history", "templates", "bundles"} :
          Range(lastImport.memory[name]) = Range(backup.memory[name])

\* what is true of two imports in a row, whatever became of the writes
RepeatLeavesMemory ==
    lastImport.repeat => lastImport.memory = lastImport.found.memory

Settled == imp.pc = "none" /\ pending = << >> /\ Memory = lastImport.memory

InitKey ==
    /\ settings \in {SettingsRecord(src, key, TRUE) :
                        src \in {"environment", "custom"}, key \in {"", "k"}}
    /\ isAistudio \in BOOLEAN
    /\ envApiKey \in {"", "e"}
    /\ prompt \in {"", "p"}
    /\ media \in {NoMedia, "clip.mp4"}
    /\ history = <<OldHistoryItem>>
    /\ templates = <<Template(2, {"x"}, "old"), Template(1, {}, "old")>>
    /\ bundles = <<Bundle(1, <<1, DanglingId>>, "old")>>
    /\ importOptions = NoOptions
    /\ imp = NoImport
    /\ lastImport = NoLastImport
    /\ selectedTags = <<"x">>
    /\ selectedBundles = << >>
    /\ selectedIndividualTemplates = << >>
    /\ AtRest

NextKey ==
    \/ HandleSubmit
    \/ MediaConverted
    \/ MediaFailed
    \/ StreamOpened
    \/ StreamChunk
    \/ StreamEnded

SpecKey == InitKey /\ [][NextKey]_vars

\* the key the request is to use
SelectedKey ==
    IF isAistudio /\ settings.apiKeySource = "environment"
    THEN envApiKey
    ELSE settings.apiKey

MissingKeyMessage == "API Key is missing. Please configure it in settings."

\* C8: a click on generate while the selected key is empty reports the
\* configuration error, calls the generation service not at all, adds no
\* history record and leaves isLoading false.
C8_MissingKeyFailsFast ==
    [][(pc = "idle" /\ ~isLoading /\ (prompt # "" \/ media # NoMedia)
            /\ SelectedKey = "") =>
          /\ error' = MissingKeyMessage
          /\ serviceCalls' = serviceCalls
          /\ request' = request
          /\ pc' = "idle"
          /\ history' = history
          /\ pending' = pending
          /\ ~isLoading']_vars

\* in AI Studio with the environment as source: the environment has no key,
\* the settings have one, and the click reported the missing key
C8_Witness ==
    /\ isAistudio
    /\ settings.apiKeySource = "environment"
    /\ settings.apiKey # ""
    /\ envApiKey = ""
    /\ error = MissingKeyMessage
    /\ ~isLoading
    /\ serviceCalls = 0

====
